---------------------------- MODULE Spec2Model ----------------------------
(***************************************************************************)
(* A model of the cognitive-profile pipeline of neuralagent:               *)
(*   - CognitiveProfileGenerator (src/src/cognitive_profiling/             *)
(*     cognitive_profiler.py): generate_comprehensive_profile and          *)
(*     create_hybrid_profile with all their helpers;                       *)
(*   - ChatBasedAssessment (src/src/cognitive_assessment/                  *)
(*     chat_assessment.py): the personality chat and the aggregation of    *)
(*     its analysed responses into a personality profile.                  *)
(*                                                                         *)
(* Python dicts are functions whose DOMAIN is the set of keys present, so  *)
(* that dict.get(key, default) is Get.  Python floats are fixed-point      *)
(* integers: the real number x is the integer x * Unit.  Python lists are  *)
(* sequences; list(set(...)) is a set.                                     *)
(***************************************************************************)
EXTENDS Integers, Sequences, FiniteSets, TLC

VARIABLES
    profile_history,            \* CognitiveProfileGenerator.profile_history
    objects,                    \* the profile dicts a caller holds, by reference
    now,                        \* the wall clock read by datetime.now(), in seconds
    pc,                         \* "idle", or "returned" while a caller holds a result
    call,                       \* the arguments of the call that produced ret
    ret,                        \* what the last call returned or raised
    nlp,                        \* ChatBasedAssessment.nlp is loaded (not None)
    personality_chat_stage,     \* ChatBasedAssessment.personality_chat_stage
    personality_chat_history,   \* ChatBasedAssessment.personality_chat_history
    personality_responses,      \* ChatBasedAssessment.personality_responses
    problem_chat_stage,         \* ChatBasedAssessment.problem_chat_stage
    problem_chat_history,       \* ChatBasedAssessment.problem_chat_history
    session,                    \* st.session_state of the web app
    profiles_dir,               \* the files under ProfileManager.profiles_dir
    problem_responses           \* ChatBasedAssessment.problem_responses

vars == <<profile_history, objects, now, pc, call, ret, nlp, personality_chat_stage,
          personality_chat_history, personality_responses, problem_chat_stage,
          problem_chat_history, problem_responses, session, profiles_dir>>

appVars == <<session, profiles_dir>>
profilerVars == <<profile_history, objects, now>>
personalityVars == <<personality_chat_stage, personality_chat_history, personality_responses>>
problemVars == <<problem_chat_stage, problem_chat_history, problem_responses>>
assessmentVars == <<nlp, personalityVars, problemVars>>

-----------------------------------------------------------------------------
(* Numbers.                                                                *)

\* The fixed-point scale: the float 1.0.
Unit == 10000

\* The float x/10, for the decimal literals of the source (0.5, 0.7, ...).
Tenths(x) == (x * Unit) \div 10

\* The float x/1000.
Thousandths(x) == (x * Unit) \div 1000

\* a * b of two floats.
Mul(a, b) == (a * b) \div Unit

Abs(x) == IF x < 0 THEN -x ELSE x

Max2(a, b) == IF a >= b THEN a ELSE b

Min2(a, b) == IF a <= b THEN a ELSE b

RECURSIVE SumSeq(_)
\* Python's sum() of a list of numbers.
SumSeq(s) == IF s = <<>> THEN 0 ELSE Head(s) + SumSeq(Tail(s))

RECURSIVE MaxSeq(_)
\* Python's max() of a non-empty list of numbers.
MaxSeq(s) == IF Len(s) = 1 THEN s[1] ELSE Max2(Head(s), MaxSeq(Tail(s)))

\* list.index(v): the first (0-based) position holding v.
IndexOf(s, v) == (CHOOSE i \in 1..Len(s) : s[i] = v /\ \A j \in 1..(i - 1) : s[j] # v) - 1

RECURSIVE SqrtSearch(_, _, _)
SqrtSearch(n, lo, hi) ==
    IF lo >= hi THEN lo
    ELSE LET mid == (lo + hi + 1) \div 2
         IN IF mid * mid <= n THEN SqrtSearch(n, mid, hi)
                              ELSE SqrtSearch(n, lo, mid - 1)

\* The square root of n, rounded down to an integer.
ISqrt(n) == SqrtSearch(n, 0, 4 * Unit)

\* np.std of a list of floats (the population standard deviation):
\* sqrt(sum((x - mean)^2) / k) = sqrt(k * sum(x^2) - sum(x)^2) / k.
NpStd(s) ==
    LET k == Len(s)
        sq == [i \in 1..k |-> s[i] * s[i]]
    IN ISqrt(k * SumSeq(sq) - SumSeq(s) * SumSeq(s)) \div k

-----------------------------------------------------------------------------
(* Dicts and lists.                                                        *)

\* dict.get(key, default)
Get(d, key, default) == IF key \in DOMAIN d THEN d[key] ELSE default

\* The empty dict {}.
EmptyDict == [k \in {} |-> 0]

\* dict d with d[key] = value assigned.
Put(d, key, value) ==
    [k \in (DOMAIN d) \cup {key} |-> IF k = key THEN value ELSE d[k]]

\* A dict is truthy when it has a key.
Truthy(d) == DOMAIN d # {}

\* x in list
InList(x, s) == \E i \in 1..Len(s) : s[i] = x

\* The elements of a list.
Elems(s) == {s[i] : i \in 1..Len(s)}

\* list.append(x) when cond holds, the list unchanged otherwise.
AppendIf(s, cond, x) == IF cond THEN Append(s, x) ELSE s

\* The lists over S of length 0..n.
SeqsUpTo(S, n) == UNION {[1..k -> S] : k \in 0..n}

-----------------------------------------------------------------------------
(* CognitiveProfileGenerator: the comprehensive profile.                   *)
(*                                                                         *)
(* A message of conversation_history is [role, content], and a content is  *)
(* the text measured the way the code measures it: words is                *)
(* len(content.split()), questions is content.count('?'), exclamations is  *)
(* content.count('!'), contractions is the number of contractions counted  *)
(* by _assess_formality_level.                                             *)

\* CognitiveProfileGenerator.version
version == "1.0"

\* c.upper() for one character
UpperChar(c) ==
    CASE c = "a" -> "A"
      [] c = "b" -> "B"
      [] c = "c" -> "C"
      [] c = "d" -> "D"
      [] c = "e" -> "E"
      [] c = "f" -> "F"
      [] c = "g" -> "G"
      [] c = "h" -> "H"
      [] c = "i" -> "I"
      [] c = "j" -> "J"
      [] c = "k" -> "K"
      [] c = "l" -> "L"
      [] c = "m" -> "M"
      [] c = "n" -> "N"
      [] c = "o" -> "O"
      [] c = "p" -> "P"
      [] c = "q" -> "Q"
      [] c = "r" -> "R"
      [] c = "s" -> "S"
      [] c = "t" -> "T"
      [] c = "u" -> "U"
      [] c = "v" -> "V"
      [] c = "w" -> "W"
      [] c = "x" -> "X"
      [] c = "y" -> "Y"
      [] c = "z" -> "Z"
      [] OTHER -> c

\* The first two letters of a style name, uppercased: name[:2].upper().
Prefix2(name) ==
    IF Len(name) = 0 THEN ""
    ELSE IF Len(name) = 1 THEN UpperChar(name)
    ELSE UpperChar(SubSeq(name, 1, 1)) \o UpperChar(SubSeq(name, 2, 2))

_calculate_flexibility_score(traits) ==
    Unit - NpStd(<<Get(traits, "analytical_tendency", Tenths(5)),
                   Get(traits, "intuitive_tendency", Tenths(5)),
                   Get(traits, "creative_tendency", Tenths(5))>>)

_extract_cognitive_traits(personality_data, problem_solving_data) ==
    LET base == [primary_thinking_style |-> Get(personality_data, "primary_thinking_style", "balanced"),
                 analytical_tendency |-> Get(personality_data, "analytical_tendency", Tenths(5)),
                 intuitive_tendency |-> Get(personality_data, "intuitive_tendency", Tenths(5)),
                 creative_tendency |-> Get(personality_data, "creative_tendency", Tenths(5)),
                 systematic_tendency |-> Get(personality_data, "systematic_tendency", Tenths(5))]
        enhanced ==
            IF Truthy(problem_solving_data)
            THEN Put(Put(Put(Put(Put(base,
                     "problem_solving_approach", Get(problem_solving_data, "problem_solving_style", "balanced")),
                     "stakeholder_awareness", Get(problem_solving_data, "stakeholder_orientation", "medium")),
                     "risk_assessment_style", Get(problem_solving_data, "risk_assessment", "medium")),
                     "collaboration_preference", Get(problem_solving_data, "collaboration_tendency", "medium")),
                     "implementation_focus", Get(problem_solving_data, "implementation_focus", "medium"))
            ELSE base
    IN Put(Put(Put(enhanced,
           "cognitive_flexibility", _calculate_flexibility_score(enhanced)),
           "decision_confidence", Get(personality_data, "certainty_level", Tenths(5))),
           "complexity_comfort", IF Truthy(problem_solving_data)
                                 THEN Get(problem_solving_data, "complexity_comfort", "medium")
                                 ELSE "medium")

_default_communication_style ==
    [style_category |-> "balanced",
     average_message_length |-> 30 * Unit,
     question_frequency |-> Tenths(2),
     exclamation_frequency |-> Tenths(1),
     formality_level |-> "medium",
     explanation_preference |-> "moderate",
     interaction_style |-> "collaborative"]

_assess_formality_level(user_messages) ==
    LET n == Len(user_messages)
        total_words == SumSeq([i \in 1..n |-> user_messages[i].content.words])
        total_contractions == SumSeq([i \in 1..n |-> user_messages[i].content.contractions])
    IN IF n = 0 \/ total_words = 0 THEN "medium"
       \* contraction_ratio > 0.05, contraction_ratio < 0.01
       ELSE IF total_contractions * 100 > 5 * total_words THEN "informal"
       ELSE IF total_contractions * 100 < total_words THEN "formal"
       ELSE "medium"

_analyze_communication_patterns(conversation_history) ==
    LET user_messages == SelectSeq(conversation_history, LAMBDA m : m.role = "user")
        n == Len(user_messages)
        total_words == SumSeq([i \in 1..n |-> user_messages[i].content.words])
        total_questions == SumSeq([i \in 1..n |-> user_messages[i].content.questions])
        total_exclamations == SumSeq([i \in 1..n |-> user_messages[i].content.exclamations])
        long == total_words > 50 * n                \* avg_message_length > 50
        asking == total_questions * 10 > 5 * n       \* question_frequency > 0.5
    IN IF conversation_history = <<>> \/ n = 0 THEN _default_communication_style
       ELSE [style_category |-> IF long /\ asking THEN "detailed_inquisitive"
                                ELSE IF long THEN "detailed_explanatory"
                                ELSE IF asking THEN "concise_inquisitive"
                                ELSE "concise_direct",
             average_message_length |-> (total_words * Unit) \div n,
             question_frequency |-> (total_questions * Unit) \div n,
             exclamation_frequency |-> (total_exclamations * Unit) \div n,
             formality_level |-> _assess_formality_level(user_messages),
             explanation_preference |-> IF long THEN "detailed" ELSE "concise",
             \* question_frequency > 0.3
             interaction_style |-> IF total_questions * 10 > 3 * n THEN "collaborative"
                                   ELSE "directive"]

_default_decision_making_profile ==
    [decision_speed |-> "medium",
     information_gathering |-> "balanced",
     stakeholder_consideration |-> "medium",
     risk_tolerance |-> "medium",
     consensus_seeking |-> "medium",
     implementation_orientation |-> "medium",
     contingency_planning |-> "medium"]

_convert_risk_assessment_to_tolerance(risk_assessment) ==
    CASE risk_assessment = "high" -> "low"
      [] risk_assessment = "medium" -> "medium"
      [] risk_assessment = "low" -> "high"
      [] OTHER -> "medium"

_create_decision_making_profile(problem_solving_data) ==
    IF ~Truthy(problem_solving_data) THEN _default_decision_making_profile
    ELSE [decision_speed |-> Get(problem_solving_data, "decision_making_speed", "medium"),
          information_gathering |-> IF Get(problem_solving_data, "risk_assessment", "none") = "high"
                                    THEN "extensive" ELSE "focused",
          stakeholder_consideration |-> Get(problem_solving_data, "stakeholder_orientation", "medium"),
          risk_tolerance |-> _convert_risk_assessment_to_tolerance(
                                 Get(problem_solving_data, "risk_assessment", "medium")),
          consensus_seeking |-> Get(problem_solving_data, "collaboration_tendency", "medium"),
          implementation_orientation |-> Get(problem_solving_data, "implementation_focus", "medium"),
          contingency_planning |-> IF Get(problem_solving_data, "risk_assessment", "none") = "high"
                                   THEN "high" ELSE "medium"]

_infer_attention_pattern(personality_data, problem_solving_data) ==
    IF Get(personality_data, "systematic_tendency", 0) > Tenths(7) THEN "focused_sequential"
    ELSE IF Get(personality_data, "creative_tendency", 0) > Tenths(7) THEN "diffuse_exploratory"
    ELSE "adaptive_switching"

_infer_memory_organization_style(personality_data) ==
    IF Get(personality_data, "systematic_tendency", 0) > Tenths(7) THEN "hierarchical_structured"
    ELSE IF Get(personality_data, "creative_tendency", 0) > Tenths(7) THEN "associative_networked"
    ELSE "mixed_organization"

_map_problem_solving_approach(problem_solving_data) ==
    IF ~Truthy(problem_solving_data)
    THEN [primary_approach |-> "systematic", backup_approach |-> "intuitive"]
    ELSE LET primary == Get(problem_solving_data, "problem_solving_style", "systematic")
         IN [primary_approach |-> primary,
             backup_approach |-> IF primary = "analytical" THEN "intuitive" ELSE "analytical"]

_assess_metacognitive_awareness(personality_data) ==
    LET question_frequency == Get(personality_data, "question_frequency", 0)
    IN IF question_frequency > Unit THEN "high"
       ELSE IF question_frequency > Tenths(5) THEN "medium"
       ELSE "low"

_assess_cognitive_control(personality_data, problem_solving_data) ==
    LET systematic_score == Get(personality_data, "systematic_tendency", Tenths(5))
        certainty_level == Get(personality_data, "certainty_level", Tenths(5))
        \* control_score = (systematic_score + certainty_level) / 2
        twice == systematic_score + certainty_level
    IN IF twice > 2 * Tenths(7) THEN "high"
       ELSE IF twice > 2 * Tenths(3) THEN "medium"
       ELSE "low"

_map_thinking_architecture(personality_data, problem_solving_data) ==
    [primary_processing_mode |-> Get(personality_data, "primary_thinking_style", "balanced"),
     attention_allocation |-> _infer_attention_pattern(personality_data, problem_solving_data),
     memory_organization |-> _infer_memory_organization_style(personality_data),
     problem_solving_framework |-> _map_problem_solving_approach(problem_solving_data),
     metacognitive_awareness |-> _assess_metacognitive_awareness(personality_data),
     cognitive_control |-> _assess_cognitive_control(personality_data, problem_solving_data)]

\* A variant whose thresholds are inclusive.
Level_inclusive(x) == IF x >= Tenths(7) THEN "H" ELSE IF x >= Tenths(3) THEN "M" ELSE "L"

\* 'H' if x > 0.7 else 'M' if x > 0.3 else 'L'
Level(x) == IF x > Tenths(7) THEN "H" ELSE IF x > Tenths(3) THEN "M" ELSE "L"

\* f"{thinking_style}-{analytical_level}{intuitive_level}{creative_level}-{problem_solving_style}"
_generate_cognitive_signature(cognitive_traits) ==
    LET thinking_style == Prefix2(Get(cognitive_traits, "primary_thinking_style", "balanced"))
        analytical_level == Level(Get(cognitive_traits, "analytical_tendency", 0))
        intuitive_level == Level(Get(cognitive_traits, "intuitive_tendency", 0))
        creative_level == Level(Get(cognitive_traits, "creative_tendency", 0))
        problem_solving_style ==
            Prefix2(Get(cognitive_traits, "problem_solving_approach", "balanced"))
    IN thinking_style \o "-" \o analytical_level \o intuitive_level \o creative_level
          \o "-" \o problem_solving_style

_identify_cognitive_strengths(cognitive_traits, decision_making_profile) ==
    LET s1 == AppendIf(<<>>, Get(cognitive_traits, "analytical_tendency", 0) > Tenths(7),
                       "systematic_analysis")
        s2 == AppendIf(s1, Get(cognitive_traits, "creative_tendency", 0) > Tenths(7),
                       "innovative_thinking")
        s3 == AppendIf(s2, Get(cognitive_traits, "intuitive_tendency", 0) > Tenths(7),
                       "pattern_recognition")
        speed == Get(decision_making_profile, "decision_speed", "none")
        s4 == IF speed = "quick" THEN Append(s3, "rapid_decision_making")
              ELSE IF speed = "deliberate" THEN Append(s3, "thorough_consideration")
              ELSE s3
        s5 == AppendIf(s4, Get(cognitive_traits, "collaboration_preference", "none") = "high",
                       "collaborative_leadership")
        s6 == AppendIf(s5, Get(cognitive_traits, "implementation_focus", "none") = "high",
                       "execution_excellence")
    IN AppendIf(s6, Get(cognitive_traits, "stakeholder_awareness", "none") = "high",
                "stakeholder_management")

\* A variant whose tendency thresholds are 0.6.
_identify_potential_biases_eager(cognitive_traits) ==
    LET b1 == AppendIf(<<>>, Get(cognitive_traits, "analytical_tendency", 0) > Tenths(6),
                       "analysis_paralysis")
        b2 == AppendIf(b1, Get(cognitive_traits, "intuitive_tendency", 0) > Tenths(6),
                       "confirmation_bias")
        risk_style == Get(cognitive_traits, "risk_assessment_style", "medium")
        b3 == IF risk_style = "high" THEN Append(b2, "loss_aversion")
              ELSE IF risk_style = "low" THEN Append(b2, "overconfidence_bias")
              ELSE b2
    IN AppendIf(b3, Get(cognitive_traits, "decision_confidence", 0) > Tenths(8), "anchoring_bias")

_identify_potential_biases(cognitive_traits) ==
    LET b1 == AppendIf(<<>>, Get(cognitive_traits, "analytical_tendency", 0) > Tenths(8),
                       "analysis_paralysis")
        b2 == AppendIf(b1, Get(cognitive_traits, "intuitive_tendency", 0) > Tenths(8),
                       "confirmation_bias")
        risk_style == Get(cognitive_traits, "risk_assessment_style", "medium")
        b3 == IF risk_style = "high" THEN Append(b2, "loss_aversion")
              ELSE IF risk_style = "low" THEN Append(b2, "overconfidence_bias")
              ELSE b2
    IN AppendIf(b3, Get(cognitive_traits, "decision_confidence", 0) > Tenths(8), "anchoring_bias")

_infer_learning_preferences(cognitive_traits, communication_style) ==
    LET complexity_comfort == Get(cognitive_traits, "complexity_comfort", "medium")
    IN [information_processing |->
            IF Get(cognitive_traits, "analytical_tendency", 0) > Get(cognitive_traits, "intuitive_tendency", 0)
            THEN "sequential" ELSE "holistic",
        content_delivery |->
            IF Get(communication_style, "explanation_preference", "none") = "detailed"
            THEN "comprehensive" ELSE "concise",
        learning_mode |->
            IF Get(communication_style, "interaction_style", "none") = "collaborative"
            THEN "interactive" ELSE "self_directed",
        complexity_level |->
            IF complexity_comfort = "high" THEN "advanced"
            ELSE IF complexity_comfort = "low" THEN "simplified"
            ELSE "moderate"]

_suggest_hybrid_roles(dominant_traits) ==
    LET r1 == AppendIf(<<>>, InList("analytical", dominant_traits), "strategic_advisor")
        r2 == AppendIf(r1, InList("creative", dominant_traits), "innovation_catalyst")
        r3 == AppendIf(r2, InList("intuitive", dominant_traits), "pattern_synthesizer")
        r4 == AppendIf(r3, Len(dominant_traits) > 1, "cognitive_bridge")
    IN IF r4 # <<>> THEN r4 ELSE <<"balanced_generalist">>

_assess_hybridization_potential(cognitive_traits) ==
    LET flexibility_score ==
            Unit - NpStd(<<Get(cognitive_traits, "analytical_tendency", Tenths(5)),
                           Get(cognitive_traits, "intuitive_tendency", Tenths(5)),
                           Get(cognitive_traits, "creative_tendency", Tenths(5)),
                           Get(cognitive_traits, "systematic_tendency", Tenths(5))>>)
        d1 == AppendIf(<<>>, Get(cognitive_traits, "analytical_tendency", 0) > Tenths(7), "analytical")
        d2 == AppendIf(d1, Get(cognitive_traits, "creative_tendency", 0) > Tenths(7), "creative")
        dominant_traits == AppendIf(d2, Get(cognitive_traits, "intuitive_tendency", 0) > Tenths(7),
                                    "intuitive")
    IN [flexibility_score |-> flexibility_score,
        dominant_traits |-> dominant_traits,
        hybridization_difficulty |-> IF flexibility_score > Tenths(7) THEN "low"
                                     ELSE IF flexibility_score > Tenths(4) THEN "medium"
                                     ELSE "high",
        best_hybrid_roles |-> _suggest_hybrid_roles(dominant_traits)]

_identify_complementary_traits(cognitive_traits) ==
    LET c1 == AppendIf(<<>>, Get(cognitive_traits, "analytical_tendency", 0) < Tenths(3), "high_analytical")
        c2 == AppendIf(c1, Get(cognitive_traits, "creative_tendency", 0) < Tenths(3), "high_creative")
        c3 == AppendIf(c2, Get(cognitive_traits, "intuitive_tendency", 0) < Tenths(3), "high_intuitive")
        c4 == AppendIf(c3, Get(cognitive_traits, "risk_assessment_style", "none") = "high", "risk_taking")
    IN AppendIf(c4, Get(cognitive_traits, "collaboration_preference", "none") = "low",
                "high_collaboration")

_calculate_confidence_score(assessment_data) ==
    LET personality_data == Get(assessment_data, "personality", EmptyDict)
        problem_solving_data == Get(assessment_data, "problem_solving", EmptyDict)
        conversation_history == Get(assessment_data, "conversation_history", <<>>)
        score == (IF Cardinality(DOMAIN personality_data) > 5 THEN Tenths(4) ELSE 0)
                 + (IF Cardinality(DOMAIN problem_solving_data) > 3 THEN Tenths(3) ELSE 0)
                 + (IF Len(conversation_history) > 10 THEN Tenths(3) ELSE 0)
    IN Min2(score, Unit)

_assess_data_completeness(assessment_data) ==
    LET completeness_score ==
            (IF Truthy(Get(assessment_data, "personality", EmptyDict)) THEN 1 ELSE 0)
            + (IF Truthy(Get(assessment_data, "problem_solving", EmptyDict)) THEN 1 ELSE 0)
            + (IF Len(Get(assessment_data, "conversation_history", <<>>)) > 5 THEN 1 ELSE 0)
    IN CASE completeness_score = 3 -> "complete"
         [] completeness_score = 2 -> "good"
         [] completeness_score = 1 -> "partial"
         [] OTHER -> "insufficient"

_calculate_reliability_score(assessment_data) ==
    LET completeness == _assess_data_completeness(assessment_data)
        base_score == IF completeness = "partial" THEN Tenths(8) - Tenths(2)
                      ELSE IF completeness = "insufficient" THEN Tenths(8) - Tenths(4)
                      ELSE Tenths(8)
    IN Max2(base_score, Tenths(1))

\* "%02d" % n
Pad2(n) == IF n < 10 THEN "0" \o ToString(n) ELSE ToString(n)

\* "%Y%m%d" of the day the clock's second d * 86400 falls in, second 0 being
\* midnight of 2024-01-01.
strftime_date(d) ==
    CASE d = 0 -> "20240101"
      [] d = -1 -> "20231231"
      [] OTHER -> "day" \o ToString(d)

\* datetime.strftime("%Y%m%d_%H%M%S") of the clock's second t.
strftime(t) ==
    LET second_of_day == t % 86400
    IN strftime_date(t \div 86400) \o "_" \o Pad2(second_of_day \div 3600)
          \o Pad2((second_of_day \div 60) % 60) \o Pad2(second_of_day % 60)

\* A variant that formats the timestamp to the minute: "%Y%m%d_%H%M".
_generate_profile_id_to_minute(t) ==
    LET second_of_day == t % 86400
    IN "PROFILE_" \o strftime_date(t \div 86400) \o "_" \o Pad2(second_of_day \div 3600)
          \o Pad2((second_of_day \div 60) % 60)

\* f"PROFILE_{timestamp}", the timestamp being the clock's second.
_generate_profile_id(t) == "PROFILE_" \o strftime(t)

\* The profile generate_comprehensive_profile builds when the clock reads t.
ComprehensiveProfile(assessment_data, t) ==
    LET personality_data == Get(assessment_data, "personality", EmptyDict)
        problem_solving_data == Get(assessment_data, "problem_solving", EmptyDict)
        conversation_history == Get(assessment_data, "conversation_history", <<>>)
        cognitive_traits == _extract_cognitive_traits(personality_data, problem_solving_data)
        communication_style == _analyze_communication_patterns(conversation_history)
        decision_making_profile == _create_decision_making_profile(problem_solving_data)
        thinking_architecture == _map_thinking_architecture(personality_data, problem_solving_data)
    IN [profile_id |-> _generate_profile_id(t),
        version |-> version,
        creation_timestamp |-> t,
        cognitive_traits |-> cognitive_traits,
        thinking_architecture |-> thinking_architecture,
        communication_style |-> communication_style,
        decision_making_profile |-> decision_making_profile,
        cognitive_signature |-> _generate_cognitive_signature(cognitive_traits),
        strengths |-> _identify_cognitive_strengths(cognitive_traits, decision_making_profile),
        potential_biases |-> _identify_potential_biases(cognitive_traits),
        learning_preferences |-> _infer_learning_preferences(cognitive_traits, communication_style),
        hybridization_potential |-> _assess_hybridization_potential(cognitive_traits),
        complementary_traits |-> _identify_complementary_traits(cognitive_traits),
        confidence_score |-> _calculate_confidence_score(assessment_data),
        data_completeness |-> _assess_data_completeness(assessment_data),
        profile_reliability |-> _calculate_reliability_score(assessment_data)]

-----------------------------------------------------------------------------
(* CognitiveProfileGenerator: the hybrid profile.                          *)

\* Python's None, as the value of dict.get(key) for a missing key.
None == <<"None">>

\* The six traits _blend_cognitive_traits averages.
numerical_traits ==
    <<"analytical_tendency", "intuitive_tendency", "creative_tendency",
      "systematic_tendency", "decision_confidence", "cognitive_flexibility">>

\* The five traits _blend_cognitive_traits takes from the dominant profile.
categorical_traits ==
    <<"primary_thinking_style", "problem_solving_approach",
      "complexity_comfort", "stakeholder_awareness", "risk_assessment_style">>

\* The six traits _blend_decision_making_profiles selects.
decision_traits ==
    <<"decision_speed", "information_gathering", "stakeholder_consideration",
      "risk_tolerance", "consensus_seeking", "implementation_orientation">>

\* A variant that resolves a tie to the last position holding the maximum.
dominant_profile_index_last(weights) ==
    (CHOOSE i \in 1..Len(weights) :
        weights[i] = MaxSeq(weights) /\ \A j \in (i + 1)..Len(weights) : weights[j] # weights[i]) - 1

\* weights.index(max(weights)), 0-based as in the source.
dominant_profile_index(weights) == IndexOf(weights, MaxSeq(weights))

\* A variant that weights the traits present and adds the default unweighted.
weighted_sum_default_unweighted(profiles, weights, trait) ==
    SumSeq([i \in 1..Min2(Len(profiles), Len(weights)) |->
               IF trait \in DOMAIN Get(profiles[i], "cognitive_traits", EmptyDict)
               THEN Mul(profiles[i].cognitive_traits[trait], weights[i])
               ELSE Tenths(5)])

\* sum(profile.get('cognitive_traits', {}).get(trait, 0.5) * weight ...)
weighted_sum(profiles, weights, trait) ==
    SumSeq([i \in 1..Min2(Len(profiles), Len(weights)) |->
               Mul(Get(Get(profiles[i], "cognitive_traits", EmptyDict), trait, Tenths(5)),
                   weights[i])])

\* The value of a categorical trait in the blend.
dominant_trait(profiles, weights, trait) ==
    Get(Get(profiles[dominant_profile_index(weights) + 1], "cognitive_traits", EmptyDict),
        trait, "medium")

_blend_cognitive_traits(profiles, weights) ==
    [trait \in Elems(numerical_traits) \cup Elems(categorical_traits) |->
        IF trait \in Elems(numerical_traits)
        THEN weighted_sum(profiles, weights, trait)
        ELSE dominant_trait(profiles, weights, trait)]

_blend_thinking_architectures(profiles, weights) ==
    LET index == dominant_profile_index(weights)
        base_architecture == Get(profiles[index + 1], "thinking_architecture", EmptyDict)
    IN Put(base_architecture, "hybrid_notes",
           <<"Primary architecture from profile", index + 1,
             "influenced by", Len(profiles), "profiles">>)

_select_dominant_communication_style(profiles, weights) ==
    LET dominant_style ==
            Get(profiles[dominant_profile_index(weights) + 1], "communication_style", EmptyDict)
    IN Put(dominant_style, "hybrid_influence",
           <<"Dominant style with influences from", Len(profiles), "profiles">>)

_blend_decision_making_profiles(profiles, weights) ==
    LET decision_profiles ==
            [i \in 1..Len(profiles) |-> Get(profiles[i], "decision_making_profile", EmptyDict)]
        dominant_index == dominant_profile_index(weights)
    IN [trait \in Elems(decision_traits) |->
           Get(decision_profiles[dominant_index + 1], trait, "medium")]

RECURSIVE Concat(_)
\* all_strengths: the lists of the profiles, extended one after the other.
Concat(lists) == IF lists = <<>> THEN <<>> ELSE Head(lists) \o Concat(Tail(lists))

\* strength_counts[strength]: the occurrences of strength in all_strengths.
CountIn(x, s) == Cardinality({i \in 1..Len(s) : s[i] = x})

\* A variant that renames a strength only from its third occurrence on.
hybrid_strength_name_thrice(strength, count) ==
    IF count > 2 THEN "enhanced_" \o strength ELSE strength

\* The name a counted strength enters the hybrid with.
hybrid_strength_name(strength, count) ==
    IF count > 1 THEN "enhanced_" \o strength ELSE strength

_identify_hybrid_strengths(profiles, weights) ==
    LET all_strengths ==
            Concat([i \in 1..Len(profiles) |-> Get(profiles[i], "strengths", <<>>)])
        counted == {hybrid_strength_name(s, CountIn(s, all_strengths)) : s \in Elems(all_strengths)}
        versatile == IF Len(profiles) > 2 THEN {"cognitive_versatility"} ELSE {}
    IN counted \cup versatile \cup {"adaptive_thinking"}

\* [p.get(section, {}).get(field, default) for p in profiles]
FieldOfAll(profiles, section, field, default) ==
    [i \in 1..Len(profiles) |-> Get(Get(profiles[i], section, EmptyDict), field, default)]

\* A variant that sees the tension only when 'quick' comes before 'deliberate'.
decision_speed_tension_ordered(decision_speeds) ==
    \E i, j \in 1..Len(decision_speeds) :
        i < j /\ decision_speeds[i] = "quick" /\ decision_speeds[j] = "deliberate"

\* 'quick' in decision_speeds and 'deliberate' in decision_speeds
decision_speed_tension(decision_speeds) ==
    InList("quick", decision_speeds) /\ InList("deliberate", decision_speeds)

\* A variant that looks for one profile exceeding 0.8 in both tendencies.
analytical_intuitive_tension_per_profile(analytical_scores, intuitive_scores) ==
    \E i \in 1..Len(analytical_scores) :
        analytical_scores[i] > Tenths(8) /\ intuitive_scores[i] > Tenths(8)

\* max(analytical_scores) > 0.8 and max(intuitive_scores) > 0.8
analytical_intuitive_tension(analytical_scores, intuitive_scores) ==
    MaxSeq(analytical_scores) > Tenths(8) /\ MaxSeq(intuitive_scores) > Tenths(8)

_identify_potential_conflicts(profiles, weights) ==
    LET thinking_styles == FieldOfAll(profiles, "cognitive_traits", "primary_thinking_style", "balanced")
        decision_speeds == FieldOfAll(profiles, "decision_making_profile", "decision_speed", "medium")
        risk_tolerances == FieldOfAll(profiles, "decision_making_profile", "risk_tolerance", "medium")
        analytical_scores == FieldOfAll(profiles, "cognitive_traits", "analytical_tendency", Tenths(5))
        intuitive_scores == FieldOfAll(profiles, "cognitive_traits", "intuitive_tendency", Tenths(5))
        c1 == AppendIf(<<>>, Cardinality(Elems(thinking_styles)) > 1, "conflicting_thinking_styles")
        c2 == AppendIf(c1, decision_speed_tension(decision_speeds), "decision_speed_tension")
        c3 == AppendIf(c2, InList("high", risk_tolerances) /\ InList("low", risk_tolerances),
                       "risk_tolerance_conflict")
    IN AppendIf(c3, analytical_intuitive_tension(analytical_scores, intuitive_scores),
                "analytical_intuitive_tension")

_generate_optimization_suggestions(use_case, hybrid_traits) ==
    LET by_use_case ==
            CASE use_case = "leadership" ->
                    <<"Focus on balancing analytical and intuitive decision-making",
                      "Develop stakeholder communication strategies">>
              [] use_case = "innovation" ->
                    <<"Leverage creative thinking while maintaining systematic approach",
                      "Create structured ideation processes">>
              [] use_case = "problem_solving" ->
                    <<"Develop frameworks that combine multiple thinking styles",
                      "Practice switching between analytical and creative modes">>
              [] OTHER -> <<>>
        s1 == AppendIf(by_use_case,
                       Get(hybrid_traits, "analytical_tendency", Tenths(5)) > Tenths(7)
                       /\ Get(hybrid_traits, "creative_tendency", Tenths(5)) > Tenths(7),
                       "Create structured creativity sessions to balance both strengths")
    IN AppendIf(s1, Get(hybrid_traits, "decision_confidence", Tenths(5)) < Tenths(4),
                "Develop confidence-building exercises for decision-making")

\* len(profiles) != len(weights)
count_mismatch(profiles, weights) == Len(profiles) # Len(weights)

\* A variant of the weight check without the tolerance: sum(weights) != 1.0.
bad_weight_sum_exact(weights) == SumSeq(weights) # Unit

\* abs(sum(weights) - 1.0) > 0.01
bad_weight_sum(weights) == Abs(SumSeq(weights) - Unit) > Thousandths(10)

\* A variant that lists the ids in reverse order.
source_ids_reversed(profiles) ==
    [i \in 1..Len(profiles) |-> Get(profiles[Len(profiles) + 1 - i], "profile_id", None)]

\* [p.get('profile_id') for p in profiles]
source_ids(profiles) == [i \in 1..Len(profiles) |-> Get(profiles[i], "profile_id", None)]

\* The dict create_hybrid_profile builds when neither check raises.
HybridProfile(profiles, weights, use_case, t) ==
    LET hybrid_traits == _blend_cognitive_traits(profiles, weights)
    IN [profile_id |-> _generate_profile_id(t),
        version |-> version,
        creation_timestamp |-> t,
        profile_type |-> "hybrid",
        source_profiles |-> source_ids(profiles),
        hybrid_weights |-> weights,
        use_case |-> use_case,
        cognitive_traits |-> hybrid_traits,
        thinking_architecture |-> _blend_thinking_architectures(profiles, weights),
        communication_style |-> _select_dominant_communication_style(profiles, weights),
        decision_making_profile |-> _blend_decision_making_profiles(profiles, weights),
        cognitive_signature |-> _generate_cognitive_signature(hybrid_traits),
        hybrid_strengths |-> _identify_hybrid_strengths(profiles, weights),
        potential_conflicts |-> _identify_potential_conflicts(profiles, weights),
        optimization_suggestions |-> _generate_optimization_suggestions(use_case, hybrid_traits)]

\* What a call returns: a value, or the exception it raises.
Return(value) == [kind |-> "return", none |-> FALSE, value |-> value]

\* return None
ReturnNone == [kind |-> "return", none |-> TRUE]

Raise(message) == [kind |-> "raise", error |-> "ValueError", message |-> message]

\* The IndexError of a list indexed past its end.
RaiseIndexError ==
    [kind |-> "raise", error |-> "IndexError", message |-> "list index out of range"]

\* A variant that checks the weight sum before the count.
create_hybrid_profile_result_sum_first(profiles, weights, use_case, t) ==
    IF bad_weight_sum(weights)
    THEN Raise("Weights must sum to 1.0")
    ELSE IF count_mismatch(profiles, weights)
    THEN Raise("Number of profiles must match number of weights")
    ELSE Return(HybridProfile(profiles, weights, use_case, t))

\* The outcome of create_hybrid_profile(profiles, weights, use_case) at time t.
create_hybrid_profile_result(profiles, weights, use_case, t) ==
    IF count_mismatch(profiles, weights)
    THEN Raise("Number of profiles must match number of weights")
    ELSE IF bad_weight_sum(weights)
    THEN Raise("Weights must sum to 1.0")
    ELSE Return(HybridProfile(profiles, weights, use_case, t))

-----------------------------------------------------------------------------
(* The inputs of the profiler.                                             *)

\* The most profiles and weights one create_hybrid_profile call is given.
MaxSources == 3

\* The most profiles generated on one generator.
MaxHistory == 2

\* A message of the user, measured (see above).
UserMessage(words, questions) ==
    [role |-> "user",
     content |-> [words |-> words, questions |-> questions, exclamations |-> 0,
                  contractions |-> 0]]

\* analytical_data of the demo's main().
analytical_data ==
    [personality |->
        [primary_thinking_style |-> "analytical",
         analytical_tendency |-> Tenths(9),
         intuitive_tendency |-> Tenths(3),
         creative_tendency |-> Tenths(4),
         systematic_tendency |-> Tenths(8),
         certainty_level |-> Tenths(8)],
     problem_solving |->
        [problem_solving_style |-> "systematic",
         stakeholder_orientation |-> "high",
         risk_assessment |-> "high",
         collaboration_tendency |-> "medium",
         implementation_focus |-> "high",
         decision_making_speed |-> "deliberate",
         complexity_comfort |-> "high"],
     conversation_history |-> <<UserMessage(14, 0), UserMessage(13, 0)>>]

\* intuitive_data of the demo's main().
intuitive_data ==
    [personality |->
        [primary_thinking_style |-> "intuitive",
         analytical_tendency |-> Tenths(5),
         intuitive_tendency |-> Tenths(9),
         creative_tendency |-> Tenths(6),
         systematic_tendency |-> Tenths(4),
         certainty_level |-> Tenths(6)],
     problem_solving |->
        [problem_solving_style |-> "intuitive",
         stakeholder_orientation |-> "high",
         risk_assessment |-> "medium",
         collaboration_tendency |-> "high",
         implementation_focus |-> "medium",
         decision_making_speed |-> "quick",
         complexity_comfort |-> "high"],
     conversation_history |-> <<UserMessage(17, 0), UserMessage(14, 0)>>]

\* An assessment whose problem-solving part was never taken.
personality_only_data ==
    [personality |->
        [primary_thinking_style |-> "creative",
         analytical_tendency |-> Tenths(4),
         intuitive_tendency |-> Tenths(8),
         creative_tendency |-> Tenths(9),
         systematic_tendency |-> Tenths(3),
         certainty_level |-> Tenths(5)]]

\* What generate_comprehensive_profile is called with.
AssessmentInputs == {analytical_data, personality_only_data}

\* A profile dict that holds only some of the keys the blend reads
\* (every read of the blend is a dict.get with a default).
partial_profile ==
    [profile_id |-> "PROFILE_20231231_235957",
     cognitive_traits |->
        [primary_thinking_style |-> "creative",
         intuitive_tendency |-> Tenths(9),
         creative_tendency |-> Tenths(9)],
     strengths |-> <<"innovative_thinking", "pattern_recognition">>]

\* The profiles the caller of create_hybrid_profile holds: two generated in
\* earlier seconds by generate_comprehensive_profile, and a partial one.
LoadedProfiles ==
    <<ComprehensiveProfile(analytical_data, -1),
      ComprehensiveProfile(intuitive_data, -2),
      partial_profile>>

\* References to the caller's profiles.
Refs == 1..Len(LoadedProfiles)

\* The weights a caller passes: 0.25, 0.3, 0.35, 0.4, 0.6, 0.605, 0.7 and 1.0.
WeightValues ==
    {Thousandths(250), Thousandths(300), Thousandths(350), Thousandths(400),
     Thousandths(600), Thousandths(605), Thousandths(700), Unit}

\* The weight lists a caller passes: the empty one, and those whose sum is
\* within 0.1 of 1.0, on both sides of the tolerance of 0.01.
WeightVectors ==
    {w \in SeqsUpTo(WeightValues, MaxSources) :
        w = <<>> \/ Abs(SumSeq(w) - Unit) <= Tenths(1)}

UseCases == {"leadership", "research"}

-----------------------------------------------------------------------------
(* The generator as a state machine.                                       *)

NoCall == [op |-> "none"]

NoReturn == [kind |-> "none"]

Init ==
    /\ profile_history = <<>>
    /\ objects = LoadedProfiles
    /\ now = 0
    /\ pc = "idle"
    /\ call = NoCall
    /\ ret = NoReturn
    /\ nlp = TRUE
    /\ personality_chat_stage = 0
    /\ personality_chat_history = <<>>
    /\ personality_responses = EmptyDict
    /\ problem_chat_stage = 0
    /\ problem_chat_history = <<>>
    /\ problem_responses = EmptyDict
    /\ session = EmptyDict
    /\ profiles_dir = EmptyDict

\* A variant that puts the newest profile first.
history_after_generate_newest_first(history, profile) == <<profile>> \o history

\* self.profile_history after generate_comprehensive_profile built profile.
history_after_generate(history, profile) == Append(history, profile)

generate_comprehensive_profile(assessment_data) ==
    /\ pc = "idle"
    /\ Len(profile_history) < MaxHistory
    /\ LET profile == ComprehensiveProfile(assessment_data, now)
       IN /\ profile_history' = history_after_generate(profile_history, profile)
          /\ ret' = Return(profile)
    /\ call' = [op |-> "generate_comprehensive_profile", assessment_data |-> assessment_data,
                history_before |-> profile_history]
    /\ pc' = "returned"
    /\ UNCHANGED <<objects, now, assessmentVars, appVars>>

\* A variant in which _blend_thinking_architectures annotates the dominant
\* profile's own thinking_architecture, not a copy of it.
sources_after_blend_in_place(objs, refs, weights) ==
    LET dominant == refs[dominant_profile_index(weights) + 1]
    IN IF "thinking_architecture" \in DOMAIN objs[dominant]
       THEN [objs EXCEPT ![dominant] =
                Put(objs[dominant], "thinking_architecture",
                    Put(objs[dominant].thinking_architecture, "hybrid_notes", "hybrid"))]
       ELSE objs

\* The caller's profile dicts after create_hybrid_profile(profiles, ...): the
\* blend reads them with dict.get and annotates .copy()s only.
sources_after_blend(objs, refs, weights) == objs

\* self.profile_history after create_hybrid_profile.
history_after_blend(history, outcome) == history

create_hybrid_profile(refs, weights, use_case) ==
    /\ pc = "idle"
    /\ LET profiles == [i \in 1..Len(refs) |-> objects[refs[i]]]
           outcome == create_hybrid_profile_result(profiles, weights, use_case, now)
       IN /\ ret' = outcome
          /\ profile_history' = history_after_blend(profile_history, outcome)
          /\ objects' = IF outcome.kind = "return"
                        THEN sources_after_blend(objects, refs, weights)
                        ELSE objects
    /\ call' = [op |-> "create_hybrid_profile", refs |-> refs, weights |-> weights,
                use_case |-> use_case, history_before |-> profile_history]
    /\ pc' = "returned"
    /\ UNCHANGED <<now, assessmentVars, appVars>>

\* The caller takes the result and goes on.
caller_continues ==
    /\ pc = "returned"
    /\ pc' = "idle"
    /\ call' = NoCall
    /\ ret' = NoReturn
    /\ UNCHANGED <<profilerVars, assessmentVars, appVars>>

Next ==
    \/ /\ pc = "idle"
       /\ \E assessment_data \in AssessmentInputs :
             generate_comprehensive_profile(assessment_data)
    \/ /\ pc = "idle"
       /\ \E refs \in SeqsUpTo(Refs, MaxSources), weights \in WeightVectors,
             use_case \in UseCases :
               create_hybrid_profile(refs, weights, use_case)
    \/ caller_continues

Spec == Init /\ [][Next]_vars

-----------------------------------------------------------------------------
(* ChatBasedAssessment: the analysis of one response.  A text is a string; *)
(* the patterns are searched in it as Python's `in` does, by substring.    *)

\* What the user may type in the personality chat.
UserResponses ==
    {"ok", "because the data is evidence", "I feel it instinctively",
     "Imagine a plan?", "my gut says imagine", "we strengthen it"}

\* What the user may type on a scenario.
ScenarioResponses ==
    {"we fix the team issue", "stakeholder prioritization procedure"}

\* A response that holds each of the analytical keywords, one of them thrice.
EveryAnalyticalKeyword ==
    "First, second, third, next, then, therefore, because: analyze, break down step by step; systematic, logical evidence, data, facts, research, study. Examine, consider, evaluate, assess, measure, compare data and data."

\* pattern in text
Occurs(pattern, text) ==
    \E i \in 1..(Len(text) - Len(pattern) + 1) :
        SubSeq(text, i, i + Len(pattern) - 1) = pattern

\* str.lower() of one character, for the capitals the responses use.
LowerChar(c) ==
    CASE c = "A" -> "a"
      [] c = "B" -> "b"
      [] c = "C" -> "c"
      [] c = "D" -> "d"
      [] c = "E" -> "e"
      [] c = "F" -> "f"
      [] c = "G" -> "g"
      [] c = "H" -> "h"
      [] c = "I" -> "i"
      [] c = "J" -> "j"
      [] c = "K" -> "k"
      [] c = "L" -> "l"
      [] c = "M" -> "m"
      [] c = "N" -> "n"
      [] c = "O" -> "o"
      [] c = "P" -> "p"
      [] c = "Q" -> "q"
      [] c = "R" -> "r"
      [] c = "S" -> "s"
      [] c = "T" -> "t"
      [] c = "U" -> "u"
      [] c = "V" -> "v"
      [] c = "W" -> "w"
      [] c = "X" -> "x"
      [] c = "Y" -> "y"
      [] c = "Z" -> "z"
      [] OTHER -> c

RECURSIVE Lower(_)
\* text.lower()
Lower(text) ==
    IF Len(text) <= 1 THEN LowerChar(text)
    ELSE LET half == Len(text) \div 2
         IN Lower(SubSeq(text, 1, half)) \o Lower(SubSeq(text, half + 1, Len(text)))

\* text.count(c) for a one-character c
CountChar(text, c) == Cardinality({i \in 1..Len(text) : SubSeq(text, i, i) = c})

\* len(text.split()): the maximal runs of non-blank characters
word_count(text) ==
    Cardinality({i \in 1..Len(text) :
                    /\ SubSeq(text, i, i) # " "
                    /\ (i = 1 \/ SubSeq(text, i - 1, i - 1) = " ")})

analytical_patterns ==
    <<"first", "second", "third", "next", "then", "therefore", "because",
      "analyze", "break down", "step by step", "systematic", "logical",
      "evidence", "data", "facts", "research", "study", "examine",
      "consider", "evaluate", "assess", "measure", "compare">>

intuitive_patterns ==
    <<"feel", "sense", "instinct", "gut", "intuition", "seems like",
      "appears", "impression", "hunch", "vibe", "energy", "flow",
      "natural", "organic", "spontaneous", "instinctively", "naturally">>

creative_patterns ==
    <<"imagine", "what if", "brainstorm", "creative", "innovative",
      "outside the box", "alternative", "unconventional", "novel",
      "original", "unique", "artistic", "inspiration", "envision">>

systematic_patterns ==
    <<"process", "procedure", "method", "approach", "framework",
      "structure", "organize", "plan", "schedule", "timeline",
      "phases", "stages", "sequence", "order", "prioritize">>

\* sum(1 for word in words if word in text.lower())
\* The non-empty substrings of a text.
Substrings(text) ==
    {SubSeq(text, i, j) : i \in 1..Len(text), j \in 1..Len(text)} \ {""}

\* The substrings of text.lower(), found once for each text of the model.
LowerSubstrings ==
    [text \in UserResponses \cup ScenarioResponses \cup {EveryAnalyticalKeyword} |->
        Substrings(Lower(text))]

\* pattern in text.lower()
OccursInLower(pattern, text) ==
    IF text \in DOMAIN LowerSubstrings THEN pattern \in LowerSubstrings[text]
    ELSE Occurs(pattern, Lower(text))

CountWordsIn(text, words) ==
    Cardinality({i \in 1..Len(words) : OccursInLower(words[i], text)})

\* A variant that counts every occurrence of every pattern.
count_pattern_occurrences(text, patterns) ==
    LET text_lower == Lower(text)
        occurrences(pattern) ==
            Cardinality({i \in 1..(Len(text_lower) - Len(pattern) + 1) :
                            SubSeq(text_lower, i, i + Len(pattern) - 1) = pattern})
    IN SumSeq([i \in 1..Len(patterns) |-> occurrences(patterns[i])])

count_pattern_matches(text, patterns) == CountWordsIn(text, patterns)

count_uncertainty_words(text) ==
    CountWordsIn(text, <<"maybe", "perhaps", "possibly", "might", "could",
                         "probably", "likely", "uncertain", "unsure", "guess">>)

count_emotion_words(text) ==
    CountWordsIn(text, <<"feel", "excited", "worried", "happy", "sad", "angry",
                         "frustrated", "confident", "nervous", "passionate", "enjoy",
                         "love", "hate", "fear", "hope", "concerned", "pleased">>)

assess_certainty_level(text) ==
    LET certain_count == CountWordsIn(text, <<"definitely", "certainly", "absolutely",
                                              "sure", "confident", "always", "never">>)
        uncertain_count == CountWordsIn(text, <<"maybe", "perhaps", "possibly", "might",
                                                "could", "sometimes", "usually">>)
    IN IF certain_count > uncertain_count THEN "high"
       ELSE IF uncertain_count > certain_count THEN "low"
       ELSE "medium"

\* The syllables textstat counts in a text, for the texts of the model.
Syllables(text) ==
    CASE text = "ok" -> 1
      [] text = "because the data is evidence" -> 9
      [] text = "I feel it instinctively" -> 7
      [] text = "Imagine a plan?" -> 5
      [] text = "my gut says imagine" -> 6
      [] text = "we strengthen it" -> 4
      [] text = "we fix the team issue" -> 6
      [] text = "stakeholder prioritization procedure" -> 12
      [] text = EveryAnalyticalKeyword -> 56
      [] OTHER -> word_count(text)

\* textstat's flesch_reading_ease of a text of one sentence:
\* 206.835 - 1.015 * words - 84.6 * syllables / words.
flesch_reading_ease(text) ==
    LET words == Max2(word_count(text), 1)
    IN Thousandths(206835) - Thousandths(1015) * words
          - (Thousandths(84600) * Syllables(text)) \div words

\* A variant that computes the text-only features whether or not the
\* analyzer is loaded.
analyze_response_unguarded(loaded, text, context, t) ==
    LET features ==
            [text |-> text,
             timestamp |-> t,
             context |-> context,
             length |-> Len(text),
             word_count |-> word_count(text),
             analytical_indicators |-> count_pattern_matches(text, analytical_patterns),
             intuitive_indicators |-> count_pattern_matches(text, intuitive_patterns),
             creative_indicators |-> count_pattern_matches(text, creative_patterns),
             systematic_indicators |-> count_pattern_matches(text, systematic_patterns),
             certainty_level |-> assess_certainty_level(text)]
    IN IF ~loaded THEN [k \in (DOMAIN features) \cup {"error"} |->
                           IF k = "error" THEN "NLP model not loaded" ELSE features[k]]
       ELSE features

\* analyze_response(text, context) at time t.  The fields spaCy computes
\* (sentence_count, avg_sentence_length, personal_pronouns) are read by no
\* aggregation and are left out.
analyze_response(loaded, text, context, t) ==
    IF ~loaded THEN [error |-> "NLP model not loaded"]
    ELSE [text |-> text,
          timestamp |-> t,
          context |-> context,
          length |-> Len(text),
          word_count |-> word_count(text),
          complexity_score |-> flesch_reading_ease(text),
          question_count |-> CountChar(text, "?"),
          exclamation_count |-> CountChar(text, "!"),
          uncertainty_words |-> count_uncertainty_words(text),
          analytical_indicators |-> count_pattern_matches(text, analytical_patterns),
          intuitive_indicators |-> count_pattern_matches(text, intuitive_patterns),
          creative_indicators |-> count_pattern_matches(text, creative_patterns),
          systematic_indicators |-> count_pattern_matches(text, systematic_patterns),
          emotion_words |-> count_emotion_words(text),
          certainty_level |-> assess_certainty_level(text)]

-----------------------------------------------------------------------------
(* ChatBasedAssessment: the personality chat and its aggregation.          *)

\* self.chat_stages: the questions are named, not spelled out.
chat_stages ==
    <<[question |-> "Q_openness", follow_ups |-> <<"F1_openness", "F2_openness">>,
       trait_focus |-> "openness"],
      [question |-> "Q_conscientiousness",
       follow_ups |-> <<"F1_conscientiousness", "F2_conscientiousness">>,
       trait_focus |-> "conscientiousness"],
      [question |-> "Q_extraversion", follow_ups |-> <<"F1_extraversion", "F2_extraversion">>,
       trait_focus |-> "extraversion"],
      [question |-> "Q_agreeableness", follow_ups |-> <<"F1_agreeableness", "F2_agreeableness">>,
       trait_focus |-> "agreeableness"],
      [question |-> "Q_neuroticism", follow_ups |-> <<"F1_neuroticism", "F2_neuroticism">>,
       trait_focus |-> "neuroticism"]>>

\* [m for m in history if m['role'] == role and m['stage'] == stage]
StageMessages(history, role, stage) ==
    SelectSeq(history, LAMBDA m : m.role = role /\ m.stage = stage)

RECURSIVE next_personality_question(_, _)
\* get_next_personality_question as <<stage afterwards, what it returns>>.
next_personality_question(stage, history) ==
    IF stage < Len(chat_stages)
    THEN LET stage_data == chat_stages[stage + 1]
             assistant_msgs == StageMessages(history, "assistant", stage)
             user_msgs == StageMessages(history, "user", stage)
         IN IF assistant_msgs = <<>> THEN <<stage, Return(stage_data.question)>>
            ELSE IF Len(user_msgs) = 1 THEN <<stage, Return(stage_data.follow_ups[1])>>
            ELSE IF Len(user_msgs) = 2 THEN next_personality_question(stage + 1, history)
            ELSE <<stage, ReturnNone>>
    ELSE <<stage, ReturnNone>>

\* sum(a.get(key, 0) for a in analyses)
Total(analyses, key) == SumSeq([i \in 1..Len(analyses) |-> Get(analyses[i], key, 0)])

\* total / n as a float
Mean(total, n) == (total * Unit) \div n

\* The analyses of all stages pooled: responses.values() in insertion order,
\* which is the order of the stages since the stage never decreases.
RECURSIVE all_analyses_from(_, _)
all_analyses_from(responses, k) ==
    IF k > Len(chat_stages) THEN <<>>
    ELSE Get(responses, chat_stages[k].trait_focus, <<>>) \o all_analyses_from(responses, k + 1)

\* A variant that aggregates the responses of the first stage only.
all_analyses_first_stage(responses) == Get(responses, chat_stages[1].trait_focus, <<>>)

all_analyses(responses) == all_analyses_from(responses, 1)

\* A variant whose chain tests the categories in the opposite order.
primary_style_creative_first(avg_analytical, avg_intuitive, avg_creative) ==
    LET max_score == Max2(avg_analytical, Max2(avg_intuitive, avg_creative))
    IN IF max_score = avg_creative THEN "creative"
       ELSE IF max_score = avg_intuitive THEN "intuitive"
       ELSE "analytical"

\* The if/elif chain on max_score.
primary_style(avg_analytical, avg_intuitive, avg_creative) ==
    LET max_score == Max2(avg_analytical, Max2(avg_intuitive, avg_creative))
    IN IF max_score = avg_analytical THEN "analytical"
       ELSE IF max_score = avg_intuitive THEN "intuitive"
       ELSE IF max_score = avg_creative THEN "creative"
       ELSE "balanced"

determine_communication_style(analyses) ==
    LET avg_length == Mean(Total(analyses, "word_count"), Len(analyses))
        avg_questions == Mean(Total(analyses, "question_count"), Len(analyses))
    IN IF avg_length > 75 * Unit /\ avg_questions > Unit THEN "detailed_inquisitive"
       ELSE IF avg_length > 75 * Unit THEN "detailed_explanatory"
       ELSE IF avg_questions > Unit THEN "concise_inquisitive"
       ELSE "concise_direct"

identify_response_patterns(analyses) ==
    LET n == Len(analyses)
        p1 == AppendIf(<<>>, \A i \in 1..n : Get(analyses[i], "analytical_indicators", 0) > 0,
                       "consistently_analytical")
        p2 == AppendIf(p1, Total(analyses, "emotion_words") > n, "emotionally_aware")
        p3 == AppendIf(p2, Total(analyses, "systematic_indicators") > n, "systematic_thinker")
    IN AppendIf(p3, 2 * Total(analyses, "creative_indicators") > n, "creative_thinker")

\* What generate_personality_profile() returns at time t: None, or the profile.
personality_profile(responses, t) ==
    LET analyses == all_analyses(responses)
        num_responses == Len(analyses)
        avg_analytical == Mean(Total(analyses, "analytical_indicators"), num_responses)
        avg_intuitive == Mean(Total(analyses, "intuitive_indicators"), num_responses)
        avg_creative == Mean(Total(analyses, "creative_indicators"), num_responses)
        avg_systematic == Mean(Total(analyses, "systematic_indicators"), num_responses)
        high == SelectSeq(analyses, LAMBDA a : Get(a, "certainty_level", "") = "high")
    IN IF analyses = <<>> THEN ReturnNone
       ELSE Return([primary_thinking_style |-> primary_style(avg_analytical, avg_intuitive, avg_creative),
             analytical_tendency |-> avg_analytical,
             intuitive_tendency |-> avg_intuitive,
             creative_tendency |-> avg_creative,
             systematic_tendency |-> avg_systematic,
             certainty_level |-> Mean(Len(high), num_responses),
             emotional_expression |-> Mean(Total(analyses, "emotion_words"), num_responses),
             communication_style |-> determine_communication_style(analyses),
             response_patterns |-> identify_response_patterns(analyses),
             avg_response_length |-> Mean(Total(analyses, "word_count"), num_responses),
             question_frequency |-> Mean(Total(analyses, "question_count"), num_responses),
             generation_timestamp |-> t])

-----------------------------------------------------------------------------
(* ChatBasedAssessment: the problem-solving scenarios.                     *)

\* self.problem_scenarios: the scenario texts and follow-ups are named.
problem_scenarios ==
    <<[title |-> "Project Management Challenge", scenario |-> "S_management",
       type |-> "management", follow_ups |-> <<"F1_management", "F2_management", "F3_management">>],
      [scenario |-> "S_analytical", type |-> "analytical",
       follow_ups |-> <<"F1_analytical", "F2_analytical", "F3_analytical">>],
      [scenario |-> "S_creative", type |-> "creative",
       follow_ups |-> <<"F1_creative", "F2_creative", "F3_creative">>]>>

count_solution_words(text) ==
    CountWordsIn(text, <<"solve", "solution", "fix", "resolve", "address", "handle",
                         "deal with", "tackle">>)

count_process_words(text) ==
    CountWordsIn(text, <<"step", "process", "approach", "method", "way", "how", "procedure">>)

count_stakeholder_references(text) ==
    CountWordsIn(text, <<"team", "people", "stakeholder", "client", "customer", "user",
                         "others", "everyone">>)

count_risk_words(text) ==
    CountWordsIn(text, <<"risk", "danger", "problem", "issue", "challenge", "difficulty",
                         "obstacle", "concern">>)

count_resource_words(text) ==
    CountWordsIn(text, <<"time", "money", "budget", "resource", "cost", "effort", "energy",
                         "capacity">>)

count_time_references(text) ==
    CountWordsIn(text, <<"deadline", "schedule", "timeline", "urgent", "priority", "quick",
                         "slow", "immediate">>)

count_collaboration_words(text) ==
    CountWordsIn(text, <<"together", "collaborate", "teamwork", "cooperation", "partnership",
                         "joint", "shared">>)

count_implementation_words(text) ==
    CountWordsIn(text, <<"implement", "execute", "deploy", "build", "create", "develop",
                         "action", "do">>)

\* d.update(e)
Update(d, e) ==
    [k \in (DOMAIN d) \cup (DOMAIN e) |-> IF k \in DOMAIN e THEN e[k] ELSE d[k]]

analyze_problem_solving_response(loaded, text, problem_type, t) ==
    LET base_analysis == analyze_response(loaded, text, problem_type, t)
        problem_solving_indicators ==
            [solution_orientation |-> count_solution_words(text),
             process_orientation |-> count_process_words(text),
             stakeholder_awareness |-> count_stakeholder_references(text),
             risk_awareness |-> count_risk_words(text),
             resource_consideration |-> count_resource_words(text),
             time_orientation |-> count_time_references(text),
             collaboration_indicators |-> count_collaboration_words(text),
             implementation_focus |-> count_implementation_words(text)]
    IN Update(base_analysis, problem_solving_indicators)

\* [m for m in history if m['role'] == role and m.get('scenario_index') == stage]
ScenarioMessages(history, role, stage) ==
    SelectSeq(history, LAMBDA m : m.role = role /\ m.scenario_index = stage)

RECURSIVE next_problem_scenario(_, _)
\* get_next_problem_scenario as <<stage afterwards, what it returns>>.
next_problem_scenario(stage, history) ==
    IF stage < Len(problem_scenarios)
    THEN LET scenario == problem_scenarios[stage + 1]
             assistant_msgs == ScenarioMessages(history, "assistant", stage)
             user_msgs == ScenarioMessages(history, "user", stage)
         IN IF assistant_msgs = <<>> THEN <<stage, Return(scenario)>>
            ELSE IF Len(user_msgs) >= 3 THEN next_problem_scenario(stage + 1, history)
            ELSE <<stage, ReturnNone>>
    ELSE <<stage, ReturnNone>>

\* The scenario types in the order of problem_scenarios.
scenario_types == [k \in 1..Len(problem_scenarios) |-> problem_scenarios[k].type]

RECURSIVE problem_analyses_from(_, _)
\* The analyses of the responses of all scenario types.  The sums, the means
\* and the two assessments taken of them do not depend on their order.
problem_analyses_from(responses, k) ==
    IF k > Len(scenario_types) THEN <<>>
    ELSE LET collected == Get(responses, scenario_types[k], [responses |-> <<>>]).responses
         IN [i \in 1..Len(collected) |-> collected[i].analysis]
               \o problem_analyses_from(responses, k + 1)

problem_analyses(responses) == problem_analyses_from(responses, 1)

\* 'high' if x > 1.5 else 'medium' if x > 0.5 else 'low'
Orientation(x) ==
    IF x > Tenths(15) THEN "high" ELSE IF x > Tenths(5) THEN "medium" ELSE "low"

assess_decision_speed(analyses) ==
    LET lengths == [i \in 1..Len(analyses) |->
                       IF "text" \in DOMAIN analyses[i] THEN Len(analyses[i].text) ELSE 0]
    IN IF Mean(SumSeq(lengths), Len(analyses)) > 300 * Unit THEN "deliberate" ELSE "quick"

assess_complexity_comfort(analyses) ==
    LET complexity_scores ==
            [i \in 1..Len(analyses) |-> Get(analyses[i], "complexity_score", 50 * Unit)]
        avg_complexity == SumSeq(complexity_scores) \div Len(complexity_scores)
    IN IF avg_complexity < 50 * Unit THEN "high"
       ELSE IF avg_complexity < 70 * Unit THEN "medium"
       ELSE "low"

\* The profile generate_problem_solving_profile() builds at time t from a
\* non-empty list of analyses.
problem_solving_profile(analyses, t) ==
    LET num_analyses == Len(analyses)
        solution_focus == Mean(Total(analyses, "solution_orientation"), num_analyses)
        process_focus == Mean(Total(analyses, "process_orientation"), num_analyses)
        stakeholder_awareness == Mean(Total(analyses, "stakeholder_awareness"), num_analyses)
        risk_awareness == Mean(Total(analyses, "risk_awareness"), num_analyses)
        collaboration_tendency == Mean(Total(analyses, "collaboration_indicators"), num_analyses)
        implementation_focus == Mean(Total(analyses, "implementation_focus"), num_analyses)
    IN [problem_solving_style |->
            IF solution_focus > process_focus THEN "solution-focused" ELSE "process-focused",
        stakeholder_orientation |-> Orientation(stakeholder_awareness),
        risk_assessment |-> Orientation(risk_awareness),
        collaboration_tendency |-> Orientation(collaboration_tendency),
        implementation_focus |-> Orientation(implementation_focus),
        decision_making_speed |-> assess_decision_speed(analyses),
        complexity_comfort |-> assess_complexity_comfort(analyses),
        generation_timestamp |-> t]

\* A variant that aggregates whatever it is given, an empty list as one
\* response without content.
problem_solving_result_no_guard(responses, t) ==
    LET analyses == problem_analyses(responses)
    IN Return(problem_solving_profile(IF analyses = <<>> THEN <<EmptyDict>> ELSE analyses, t))

\* What generate_problem_solving_profile() returns at time t.
problem_solving_result(responses, t) ==
    LET analyses == problem_analyses(responses)
    IN IF analyses = <<>> THEN ReturnNone
       ELSE Return(problem_solving_profile(analyses, t))

\* The most responses one assessment collects, over both chats.
MaxResponses == 3

\* The scenario types a caller names.
ScenarioTypes == Elems(scenario_types)

\* ChatBasedAssessment(): load_nlp_model() gives the model, or None when the
\* spaCy model is not installed.
InitAssess ==
    /\ profile_history = <<>>
    /\ objects = LoadedProfiles
    /\ now = 0
    /\ pc = "idle"
    /\ call = NoCall
    /\ ret = NoReturn
    /\ nlp \in BOOLEAN
    /\ personality_chat_stage = 0
    /\ personality_chat_history = <<>>
    /\ personality_responses = EmptyDict
    /\ problem_chat_stage = 0
    /\ problem_chat_history = <<>>
    /\ problem_responses = EmptyDict
    /\ session = EmptyDict
    /\ profiles_dir = EmptyDict

get_next_personality_question ==
    /\ LET r == next_personality_question(personality_chat_stage, personality_chat_history)
       IN /\ personality_chat_stage' = r[1]
          /\ ret' = r[2]
    /\ call' = [op |-> "get_next_personality_question"]
    /\ pc' = "returned"
    /\ UNCHANGED <<nlp, appVars, personality_chat_history, personality_responses, problemVars,
                   profilerVars>>

\* The messages of the user in a chat history.
UserMessages(history) == SelectSeq(history, LAMBDA m : m.role = "user")

\* The responses collected so far.
ResponsesCollected ==
    Len(UserMessages(personality_chat_history)) + Len(UserMessages(problem_chat_history))

submit_personality_response(user_response) ==
    /\ ResponsesCollected < MaxResponses
    /\ IF personality_chat_stage < Len(chat_stages)
       THEN LET current_stage == personality_chat_stage
                stage_data == chat_stages[current_stage + 1]
                response_data == analyze_response(nlp, user_response, stage_data.trait_focus, now)
            IN /\ personality_chat_history' =
                     Append(personality_chat_history,
                            [role |-> "user", content |-> user_response, timestamp |-> now,
                             stage |-> current_stage, trait_focus |-> stage_data.trait_focus,
                             analysis |-> response_data])
               /\ personality_responses' =
                     Put(personality_responses, stage_data.trait_focus,
                         Append(Get(personality_responses, stage_data.trait_focus, <<>>),
                                response_data))
               /\ ret' = ReturnNone
       ELSE /\ ret' = RaiseIndexError
            /\ UNCHANGED <<personality_chat_history, personality_responses>>
    /\ call' = [op |-> "submit_personality_response", user_response |-> user_response]
    /\ pc' = "returned"
    /\ UNCHANGED <<nlp, appVars, personality_chat_stage, problemVars, profilerVars>>

generate_personality_profile ==
    /\ ret' = personality_profile(personality_responses, now)
    /\ call' = [op |-> "generate_personality_profile"]
    /\ pc' = "returned"
    /\ UNCHANGED <<assessmentVars, appVars, profilerVars>>

get_next_problem_scenario ==
    /\ LET r == next_problem_scenario(problem_chat_stage, problem_chat_history)
       IN /\ problem_chat_stage' = r[1]
          /\ ret' = r[2]
    /\ call' = [op |-> "get_next_problem_scenario"]
    /\ pc' = "returned"
    /\ UNCHANGED <<nlp, appVars, personalityVars, problem_chat_history, problem_responses, profilerVars>>

submit_problem_solving_response(user_response, scenario_type) ==
    /\ ResponsesCollected < MaxResponses
    /\ LET response_data ==
               analyze_problem_solving_response(nlp, user_response, scenario_type, now)
           message == [role |-> "user", content |-> user_response, timestamp |-> now,
                       scenario_index |-> problem_chat_stage, analysis |-> response_data]
           known == scenario_type \in DOMAIN problem_responses
       IN /\ problem_chat_history' = Append(problem_chat_history, message)
          /\ IF known \/ problem_chat_stage < Len(problem_scenarios)
             THEN LET entry == IF known THEN problem_responses[scenario_type]
                               ELSE [scenario |-> problem_scenarios[problem_chat_stage + 1],
                                     responses |-> <<>>,
                                     analysis_summary |-> None]
                  IN /\ problem_responses' =
                           Put(problem_responses, scenario_type,
                               [scenario |-> entry.scenario,
                                responses |-> Append(entry.responses, message),
                                analysis_summary |-> response_data])
                     /\ ret' = ReturnNone
             ELSE /\ ret' = RaiseIndexError
                  /\ UNCHANGED problem_responses
    /\ call' = [op |-> "submit_problem_solving_response", user_response |-> user_response,
                scenario_type |-> scenario_type]
    /\ pc' = "returned"
    /\ UNCHANGED <<nlp, appVars, personalityVars, problem_chat_stage, profilerVars>>

generate_problem_solving_profile ==
    /\ ret' = problem_solving_result(problem_responses, now)
    /\ call' = [op |-> "generate_problem_solving_profile"]
    /\ pc' = "returned"
    /\ UNCHANGED <<assessmentVars, appVars, profilerVars>>

-----------------------------------------------------------------------------
(* The personality chat of the web page (src/chat_assessment.py), whose    *)
(* state lives in st.session_state under the same three names.             *)

\* generate_intelligent_follow_up; pick is what random.choice draws.
generate_intelligent_follow_up(stage_data, analysis, pick) ==
    LET analytical_score == Get(analysis, "analytical_indicators", 0)
        intuitive_score == Get(analysis, "intuitive_indicators", 0)
        creative_score == Get(analysis, "creative_indicators", 0)
        trait_focus == stage_data.trait_focus
    IN IF analytical_score > intuitive_score /\ analytical_score > creative_score
       THEN IF trait_focus = "neuroticism" THEN "probe_emotions_under_stress"
            ELSE IF trait_focus = "agreeableness" THEN "probe_feelings_in_conflict"
            ELSE stage_data.follow_ups[pick]
       ELSE IF intuitive_score > analytical_score
       THEN IF trait_focus = "conscientiousness" THEN "probe_planning"
            ELSE "probe_concrete_steps"
       ELSE IF creative_score > 2 THEN "probe_implementation"
       ELSE stage_data.follow_ups[1]

\* random.choice is called only for an analytical response outside the last
\* two stages; otherwise nothing is drawn.
FollowUpPicks(stage_data, analysis) ==
    IF /\ Get(analysis, "analytical_indicators", 0) > Get(analysis, "intuitive_indicators", 0)
       /\ Get(analysis, "analytical_indicators", 0) > Get(analysis, "creative_indicators", 0)
       /\ stage_data.trait_focus \notin {"neuroticism", "agreeableness"}
    THEN 1..Len(stage_data.follow_ups)
    ELSE {1}

\* The history after the page showed the current question: it is appended
\* when the history is empty or ends with a message of the user.
history_with_question(history, stage, t) ==
    IF history = <<>> \/ history[Len(history)].role = "user"
    THEN Append(history, [role |-> "assistant", content |-> chat_stages[stage + 1].question,
                          timestamp |-> t, stage |-> stage, type |-> "main_question"])
    ELSE history

\* Mutation of user_responses_for_stage: the user messages of every stage.
user_responses_of_any_stage(history, stage) ==
    SelectSeq(history, LAMBDA m : m.role = "user")

\* The user messages of a stage: msg.get('stage') == stage and role == 'user'.
user_responses_for_stage(history, stage) ==
    SelectSeq(history, LAMBDA m : m.role = "user" /\ Get(m, "stage", -1) = stage)

\* One run of start_personality_chat, with what st.chat_input gives: a
\* response typed on the page shown by an earlier run, or "" for nothing.
start_personality_chat(user_response, pick) ==
    /\ user_response # "" => personality_chat_history # <<>>
    /\ IF personality_chat_stage < Len(chat_stages)
       THEN LET current_stage == personality_chat_stage
                stage_data == chat_stages[current_stage + 1]
                shown == history_with_question(personality_chat_history, current_stage, now)
                response_data == analyze_response(nlp, user_response, stage_data.trait_focus, now)
                answered ==
                    Append(shown, [role |-> "user", content |-> user_response, timestamp |-> now,
                                   stage |-> current_stage, trait_focus |-> stage_data.trait_focus,
                                   analysis |-> response_data])
                count == Len(user_responses_for_stage(answered, current_stage))
            IN IF user_response = ""
               THEN /\ personality_chat_history' = shown
                    /\ pick = 1
                    /\ UNCHANGED <<personality_responses, personality_chat_stage>>
               ELSE /\ pick \in FollowUpPicks(stage_data, response_data)
                    /\ personality_responses' =
                          Put(personality_responses, stage_data.trait_focus,
                              Append(Get(personality_responses, stage_data.trait_focus, <<>>),
                                     response_data))
                    /\ IF count = 1
                       THEN /\ personality_chat_history' =
                                  Append(answered,
                                         [role |-> "assistant",
                                          content |-> generate_intelligent_follow_up(
                                                          stage_data, response_data, pick),
                                          timestamp |-> now, stage |-> current_stage,
                                          type |-> "follow_up"])
                            /\ UNCHANGED personality_chat_stage
                       ELSE /\ personality_chat_history' =
                                  IF current_stage + 1 < Len(chat_stages)
                                  THEN Append(answered,
                                              [role |-> "assistant",
                                               content |-> chat_stages[current_stage + 2].question,
                                               timestamp |-> now, type |-> "transition"])
                                  ELSE answered
                            /\ personality_chat_stage' = current_stage + 1
       ELSE /\ user_response = ""
            /\ pick = 1
            /\ UNCHANGED personalityVars
    /\ ret' = ReturnNone
    /\ call' = [op |-> "start_personality_chat", user_response |-> user_response]
    /\ pc' = "returned"
    /\ UNCHANGED <<nlp, appVars, problemVars, profilerVars>>

NextAssess ==
    \/ /\ pc = "idle"
       /\ get_next_personality_question
    \/ /\ pc = "idle"
       /\ \E user_response \in UserResponses : submit_personality_response(user_response)
    \/ /\ pc = "idle"
       /\ generate_personality_profile
    \/ /\ pc = "idle"
       /\ get_next_problem_scenario
    \/ /\ pc = "idle"
       /\ \E user_response \in ScenarioResponses, scenario_type \in ScenarioTypes :
             submit_problem_solving_response(user_response, scenario_type)
    \/ /\ pc = "idle"
       /\ generate_problem_solving_profile
    \/ caller_continues

SpecAssess == InitAssess /\ [][NextAssess]_vars

-----------------------------------------------------------------------------
(* analyze_response called on its own, between responses of the chat and   *)
(* as the clock goes on.                                                   *)

\* The latest second of the clock.
MaxTime == 1

\* The texts analyze_response is called with.
AnalyzedTexts == {"Imagine a plan?", "we strengthen it", EveryAnalyticalKeyword}

\* The context tags analyze_response is called with.
Contexts == {"openness", "management"}

\* A variant that keeps a record of each analysis in the chat history.
state_after_analyze_logged(state, analysis) ==
    <<state[1],
      <<state[2][1],
        Append(state[2][2],
               [role |-> "user", content |-> "", timestamp |-> 0, stage |-> state[2][1],
                trait_focus |-> "", analysis |-> analysis]),
        state[2][3]>>,
      state[3]>>

\* The state of the assessment after analyze_response: the method assigns
\* to no attribute of self.
state_after_analyze(state, analysis) == state

analyze_response_called(text, context) ==
    /\ LET analysis == analyze_response(nlp, text, context, now)
           after == state_after_analyze(assessmentVars, analysis)
       IN /\ ret' = Return(analysis)
          /\ nlp' = after[1]
          /\ personality_chat_stage' = after[2][1]
          /\ personality_chat_history' = after[2][2]
          /\ personality_responses' = after[2][3]
          /\ problem_chat_stage' = after[3][1]
          /\ problem_chat_history' = after[3][2]
          /\ problem_responses' = after[3][3]
    /\ call' = [op |-> "analyze_response", text |-> text, context |-> context,
                state_before |-> assessmentVars]
    /\ pc' = "returned"
    /\ UNCHANGED <<profilerVars, appVars>>

\* The seconds the clock reads when a run starts: midnight, and the last
\* second of the first minute.
StartTimes == {0, 59}

\* A second passes.
clock_advances ==
    /\ \E start \in StartTimes : start <= now /\ now < start + MaxTime
    /\ now' = now + 1
    /\ UNCHANGED <<profile_history, objects, pc, call, ret, assessmentVars, appVars>>

NextAnalyze ==
    \/ /\ pc = "idle"
       /\ \E text \in AnalyzedTexts, context \in Contexts : analyze_response_called(text, context)
    \/ /\ pc = "idle"
       /\ \E user_response \in AnalyzedTexts : submit_personality_response(user_response)
    \/ /\ pc = "idle"
       /\ clock_advances
    \/ caller_continues

SpecAnalyze == InitAssess /\ [][NextAnalyze]_vars

-----------------------------------------------------------------------------
(* The generator used as the demo uses it: the caller keeps the profiles   *)
(* it is returned, while the clock goes on.                                *)

\* The most hybrid profiles a caller keeps.
MaxKept == 1

\* The profiles the caller was returned and kept, in the order of the calls.
KeptResults == SubSeq(objects, Len(LoadedProfiles) + 1, Len(objects))

\* The hybrid profiles among them.
KeptHybrids == SelectSeq(KeptResults, LAMBDA p : "profile_type" \in DOMAIN p)

\* The blends the caller asks for: the leadership hybrid of the demo and the
\* partial profile alone, besides the profile the caller got last.
BlendRefs == {<<1, 2>>, <<3>>}

\* The weights of the demo's leadership hybrid, and the whole weight on one
\* profile.
BlendWeights == {<<Thousandths(600), Thousandths(400)>>, <<Unit>>}

InitClock ==
    /\ profile_history = <<>>
    /\ objects = LoadedProfiles
    /\ now \in StartTimes
    /\ pc = "idle"
    /\ call = NoCall
    /\ ret = NoReturn
    /\ nlp = TRUE
    /\ personality_chat_stage = 0
    /\ personality_chat_history = <<>>
    /\ personality_responses = EmptyDict
    /\ problem_chat_stage = 0
    /\ problem_chat_history = <<>>
    /\ problem_responses = EmptyDict
    /\ session = EmptyDict
    /\ profiles_dir = EmptyDict

\* profile = profiler.generate_comprehensive_profile(...) and
\* hybrid = profiler.create_hybrid_profile(...): the caller binds the profile
\* it was returned; a raised error leaves its variables as they were.
caller_keeps_result ==
    /\ pc = "returned"
    /\ objects' = IF ret.kind = "return" THEN Append(objects, ret.value) ELSE objects
    /\ pc' = "idle"
    /\ call' = NoCall
    /\ ret' = NoReturn
    /\ UNCHANGED <<profile_history, now, assessmentVars, appVars>>

NextClock ==
    \/ /\ pc = "idle"
       /\ \E assessment_data \in AssessmentInputs :
             generate_comprehensive_profile(assessment_data)
    \/ /\ pc = "idle"
       /\ Len(KeptHybrids) < MaxKept
       /\ \E refs \in BlendRefs \cup {<<Len(objects)>>}, weights \in BlendWeights :
             create_hybrid_profile(refs, weights, "leadership")
    \/ /\ pc = "idle"
       /\ clock_advances
    \/ caller_keeps_result

SpecClock == InitClock /\ [][NextClock]_vars

-----------------------------------------------------------------------------
(* generate_comprehensive_profile over assessments whose tendencies lie on *)
(* and about the thresholds of the strengths and of the biases.            *)

\* An assessment of the given tendencies, risk assessment and decision speed.
assessment_of(analytical, intuitive, risk, speed) ==
    [personality |->
        [primary_thinking_style |-> "analytical",
         analytical_tendency |-> analytical,
         intuitive_tendency |-> intuitive,
         creative_tendency |-> Tenths(4),
         systematic_tendency |-> Tenths(5),
         certainty_level |-> Tenths(9)],
     problem_solving |->
        [problem_solving_style |-> "systematic",
         risk_assessment |-> risk,
         decision_making_speed |-> speed]]

\* What generate_comprehensive_profile is called with: the data of the demo
\* and of the CLI, and tendencies of 0.7, 0.8 and 0.9.
SynthesisInputs ==
    AssessmentInputs \cup {intuitive_data} \cup
    {assessment_of(analytical, intuitive, risk, speed) :
        analytical \in {Tenths(7), Tenths(8), Tenths(9)},
        intuitive \in {Tenths(8), Tenths(9)},
        risk \in {"low", "high"},
        speed \in {"quick", "deliberate"}}

NextSynthesis ==
    \/ /\ pc = "idle"
       /\ \E assessment_data \in SynthesisInputs :
             generate_comprehensive_profile(assessment_data)
    \/ caller_continues

SpecSynthesis == Init /\ [][NextSynthesis]_vars

-----------------------------------------------------------------------------
(* The personality loop of the CLI: run_personality_assessment, and the    *)
(* loop of run_cli, which differs in its exit test only.                   *)

\* One turn of `while self.personality_chat_stage < len(self.chat_stages)`:
\* the next question is asked for and, if there is one, the user's answer is
\* read and submitted; with no question the loop is left.
run_personality_assessment(user_response) ==
    /\ personality_chat_stage < Len(chat_stages)
    /\ ResponsesCollected < MaxResponses
    /\ LET r == next_personality_question(personality_chat_stage, personality_chat_history)
           current_stage == r[1]
           question == r[2]
       IN /\ personality_chat_stage' = current_stage
          /\ ret' = question
          /\ IF question.none
             THEN UNCHANGED <<personality_chat_history, personality_responses>>
             ELSE IF current_stage < Len(chat_stages)
             THEN LET stage_data == chat_stages[current_stage + 1]
                      response_data ==
                          analyze_response(nlp, user_response, stage_data.trait_focus, now)
                  IN /\ personality_chat_history' =
                           Append(personality_chat_history,
                                  [role |-> "user", content |-> user_response,
                                   timestamp |-> now, stage |-> current_stage,
                                   trait_focus |-> stage_data.trait_focus,
                                   analysis |-> response_data])
                     /\ personality_responses' =
                           Put(personality_responses, stage_data.trait_focus,
                               Append(Get(personality_responses, stage_data.trait_focus, <<>>),
                                      response_data))
             ELSE UNCHANGED <<personality_chat_history, personality_responses>>
    /\ call' = [op |-> "run_personality_assessment", user_response |-> user_response,
                answers_before |-> Len(UserMessages(personality_chat_history))]
    /\ pc' = "returned"
    /\ UNCHANGED <<nlp, appVars, problemVars, profilerVars>>

NextCli ==
    \/ /\ pc = "idle"
       /\ \E user_response \in UserResponses : run_personality_assessment(user_response)
    \/ caller_continues

SpecCli == InitAssess /\ [][NextCli]_vars

NextWeb ==
    \/ /\ pc = "idle"
       /\ \E user_response \in UserResponses \cup {""}, pick \in 1..2 :
             /\ user_response # "" => ResponsesCollected < MaxResponses
             /\ start_personality_chat(user_response, pick)
    \/ /\ pc = "idle"
       /\ generate_personality_profile
    \/ caller_continues

SpecWeb == InitAssess /\ [][NextWeb]_vars

\* What the user of a whole personality chat may type.
ChatResponses == {"ok", "because the data is evidence"}

\* The web personality chat from the first page to its completion: every
\* rerun of the page, with or without a response typed on it.
NextChat ==
    \/ /\ pc = "idle"
       /\ \E user_response \in ChatResponses \cup {""}, pick \in 1..2 :
             start_personality_chat(user_response, pick)
    \/ caller_continues

SpecChat == InitAssess /\ [][NextChat]_vars

-----------------------------------------------------------------------------
(* Properties of create_hybrid_profile.                                    *)

\* A caller holds the outcome of a create_hybrid_profile call.
HybridCalled == pc = "returned" /\ call.op = "create_hybrid_profile"

\* The call returned a hybrid profile.
HybridReturned == HybridCalled /\ ret.kind = "return"

\* The call raised.
HybridRejected == HybridCalled /\ ret.kind = "raise"

\* The i-th profile the call was given, as it was when the call was made.
SourceAt(i) == LoadedProfiles[call.refs[i]]

\* The number of profiles and the sum of the weights the call was given.
SourceCount == Len(call.refs)

WeightSum == SumSeq(call.weights)

\* The lowest position holding the highest weight.
FirstHeaviest ==
    CHOOSE k \in 1..Len(call.weights) :
        /\ \A j \in 1..Len(call.weights) : call.weights[j] <= call.weights[k]
        /\ \A j \in 1..(k - 1) : call.weights[j] < call.weights[k]

\* The source the categorical traits and the sections are taken from.
DominantSource == SourceAt(FirstHeaviest)

\* C1: given as many weights as profiles, create_hybrid_profile raises the
\* weights error exactly when abs(sum(weights) - 1.0) > 0.01; a sum of 0.95 is
\* rejected, a sum of exactly 1.0 is accepted and a hybrid profile returned.
C1_WeightSumTolerance ==
    (HybridCalled /\ SourceCount = Len(call.weights)) =>
        /\ (ret.kind = "raise" /\ ret.message = "Weights must sum to 1.0")
              <=> (WeightSum - Unit > Unit \div 100 \/ Unit - WeightSum > Unit \div 100)
        /\ WeightSum = (95 * Unit) \div 100 => ret.kind = "raise"
        /\ WeightSum = Unit => (ret.kind = "return" /\ ret.value.profile_type = "hybrid")
        /\ ret.kind \in {"raise", "return"}

\* C1 witness: two weights summing to 0.95 were rejected with the weights error.
C1_Witness ==
    /\ HybridRejected
    /\ SourceCount = 2 /\ Len(call.weights) = 2
    /\ WeightSum = (95 * Unit) \div 100
    /\ ret.message = "Weights must sum to 1.0"

\* C2: a count mismatch raises the count-mismatch error whatever the weights
\* sum to; a call raises only for a count mismatch or a bad weight sum; and a
\* rejected call returns no profile and leaves profile_history and every
\* source profile as they were.
C2_RejectedBeforeComputation ==
    HybridCalled =>
        /\ SourceCount # Len(call.weights) =>
              ret = [kind |-> "raise", error |-> "ValueError",
                     message |-> "Number of profiles must match number of weights"]
        /\ ret.kind = "raise" =>
              /\ "value" \notin DOMAIN ret
              /\ profile_history = call.history_before
              /\ objects = LoadedProfiles
              /\ \/ SourceCount # Len(call.weights)
                 \/ WeightSum - Unit > Unit \div 100
                 \/ Unit - WeightSum > Unit \div 100

\* C2 witness: on a generator with a profile in its history, one profile with
\* two weights summing to exactly 1.0 was rejected for the count mismatch.
C2_Witness ==
    /\ HybridRejected
    /\ Len(profile_history) > 0
    /\ SourceCount = 1 /\ Len(call.weights) = 2 /\ WeightSum = Unit
    /\ ret.message = "Number of profiles must match number of weights"

\* C3: each of the five categorical traits of a hybrid is the value the
\* highest-weight source holds (the lowest index on a tie; 'medium' when that
\* source holds none), never a value of another source.
C3_CategoricalFromDominant ==
    HybridReturned =>
        \A trait \in {"primary_thinking_style", "problem_solving_approach", "complexity_comfort",
                      "stakeholder_awareness", "risk_assessment_style"} :
            /\ trait \in DOMAIN ret.value.cognitive_traits
            /\ ret.value.cognitive_traits[trait] =
                  IF trait \in DOMAIN DominantSource.cognitive_traits
                  THEN DominantSource.cognitive_traits[trait]
                  ELSE "medium"

\* C3 witness: two sources of different thinking styles tied for the highest
\* weight, after a lighter first source, and the earlier of the two won.
C3_Witness ==
    /\ HybridReturned
    /\ SourceCount = 3
    /\ call.weights[2] = call.weights[3] /\ call.weights[1] < call.weights[2]
    /\ SourceAt(2).cognitive_traits.primary_thinking_style = "analytical"
    /\ SourceAt(3).cognitive_traits.primary_thinking_style = "creative"
    /\ ret.value.cognitive_traits.primary_thinking_style = "analytical"

RECURSIVE C4_Blend(_, _)
\* The sum over the sources 1..n of weights[i] * trait_i, a source that lacks
\* the trait counting as 0.5.
C4_Blend(trait, n) ==
    IF n = 0 THEN 0
    ELSE C4_Blend(trait, n - 1)
         + (call.weights[n]
            * (IF "cognitive_traits" \in DOMAIN SourceAt(n)
                  /\ trait \in DOMAIN SourceAt(n).cognitive_traits
               THEN SourceAt(n).cognitive_traits[trait]
               ELSE Unit \div 2)) \div Unit

\* C4: each of the six numeric traits of a hybrid is the sum over the sources
\* of weights[i] * trait_i, a missing trait being 0.5 before it is weighted;
\* 0.9 at weight 0.6 with 0.3 at weight 0.4 gives 0.66.
C4_NumericBlend ==
    HybridReturned =>
        /\ \A trait \in {"analytical_tendency", "intuitive_tendency", "creative_tendency",
                         "systematic_tendency", "decision_confidence", "cognitive_flexibility"} :
              /\ trait \in DOMAIN ret.value.cognitive_traits
              /\ ret.value.cognitive_traits[trait] = C4_Blend(trait, SourceCount)
        /\ (/\ call.refs = <<2, 1>>
            /\ call.weights = <<(6 * Unit) \div 10, (4 * Unit) \div 10>>)
              => ret.value.cognitive_traits.intuitive_tendency = (66 * Unit) \div 100

\* C4 witness: a source without analytical_tendency was blended at weight 0.4
\* with one whose analytical_tendency is 0.9 at weight 0.6: 0.2 + 0.54.
C4_Witness ==
    /\ HybridReturned
    /\ call.refs = <<3, 1>>
    /\ call.weights = <<(4 * Unit) \div 10, (6 * Unit) \div 10>>
    /\ "analytical_tendency" \notin DOMAIN SourceAt(1).cognitive_traits
    /\ ret.value.cognitive_traits.analytical_tendency = (74 * Unit) \div 100

\* C5: a returned hybrid lists as many source_profiles as hybrid_weights, at
\* least one, source_profiles[i] being the profile_id of profiles[i] and
\* hybrid_weights[i] being weights[i]; no profiles with no weights is rejected.
C5_ParallelSourcesAndWeights ==
    /\ HybridReturned =>
          /\ Len(ret.value.source_profiles) = Len(ret.value.hybrid_weights)
          /\ Len(ret.value.source_profiles) >= 1
          /\ Len(ret.value.source_profiles) = SourceCount
          /\ \A i \in 1..SourceCount :
                /\ ret.value.source_profiles[i] = SourceAt(i).profile_id
                /\ ret.value.hybrid_weights[i] = call.weights[i]
    /\ (HybridCalled /\ call.refs = <<>> /\ call.weights = <<>>) => ret.kind = "raise"

\* C5 witness: three profiles, the heaviest last and the first two different,
\* were blended and are listed in the caller's order.
C5_Witness ==
    /\ HybridReturned
    /\ SourceCount = 3
    /\ call.refs[1] # call.refs[2]
    /\ call.weights[1] < call.weights[3] /\ call.weights[2] < call.weights[3]
    /\ ret.value.source_profiles[1] = SourceAt(1).profile_id
    /\ ret.value.source_profiles[1] # ret.value.source_profiles[2]

\* C6: thinking_architecture, communication_style and decision_making_profile
\* of a hybrid each hold every field of the highest-weight source's section
\* with the same value, and each carries a hybrid annotation field.
C6_SectionsCopiedAndAnnotated ==
    HybridReturned =>
        \A section \in {"thinking_architecture", "communication_style", "decision_making_profile"} :
            /\ section \in DOMAIN DominantSource =>
                  \A f \in DOMAIN DominantSource[section] :
                      /\ f \in DOMAIN ret.value[section]
                      /\ ret.value[section][f] = DominantSource[section][f]
            /\ \E f \in DOMAIN ret.value[section] :
                  f \in {"hybrid_notes", "hybrid_influence", "hybrid_note"}

\* The number of sources whose strengths list s.
SourcesListing(s) ==
    Cardinality({i \in 1..SourceCount :
        "strengths" \in DOMAIN SourceAt(i) /\ InList(s, SourceAt(i).strengths)})

\* The strengths the sources list.
SourceStrengths ==
    UNION {Elems(SourceAt(i).strengths) : i \in {j \in 1..SourceCount : "strengths" \in DOMAIN SourceAt(j)}}

\* C7: every strength the sources list is in hybrid_strengths once: as
\* enhanced_<s> and not as <s> when two or more sources list it, as <s> (and
\* not as enhanced_<s>) when exactly one does.
C7_HybridStrengths ==
    HybridReturned =>
        \A s \in SourceStrengths :
            IF SourcesListing(s) >= 2
            THEN ("enhanced_" \o s) \in ret.value.hybrid_strengths
                 /\ s \notin ret.value.hybrid_strengths
            ELSE s \in ret.value.hybrid_strengths
                 /\ ("enhanced_" \o s) \notin ret.value.hybrid_strengths

\* C7 witness: of three sources all list stakeholder_management and one alone
\* lists systematic_analysis.
C7_Witness ==
    /\ HybridReturned
    /\ SourceCount = 3
    /\ SourcesListing("stakeholder_management") = 3
    /\ SourcesListing("systematic_analysis") = 1
    /\ "enhanced_stakeholder_management" \in ret.value.hybrid_strengths
    /\ "systematic_analysis" \in ret.value.hybrid_strengths

\* The decision_speed of the i-th source, 'medium' when it holds none.
SpeedOf(i) ==
    IF "decision_making_profile" \in DOMAIN SourceAt(i)
       /\ "decision_speed" \in DOMAIN SourceAt(i).decision_making_profile
    THEN SourceAt(i).decision_making_profile.decision_speed
    ELSE "medium"

\* C8: potential_conflicts holds decision_speed_tension exactly when one
\* source is 'quick' and another 'deliberate', whatever the weights and the
\* order; quick, deliberate, quick yields the tag.
C8_DecisionSpeedTension ==
    HybridReturned =>
        (InList("decision_speed_tension", ret.value.potential_conflicts)
            <=> /\ \E i \in 1..SourceCount : SpeedOf(i) = "quick"
                /\ \E j \in 1..SourceCount : SpeedOf(j) = "deliberate")

\* C8 witness: quick, deliberate, quick was blended and the tag is there.
C8_Witness ==
    /\ HybridReturned
    /\ SourceCount = 3
    /\ SpeedOf(1) = "quick" /\ SpeedOf(2) = "deliberate" /\ SpeedOf(3) = "quick"
    /\ InList("decision_speed_tension", ret.value.potential_conflicts)

\* A tendency of the i-th source, 0.5 when it holds none.
TendencyOf(i, trait) ==
    IF "cognitive_traits" \in DOMAIN SourceAt(i) /\ trait \in DOMAIN SourceAt(i).cognitive_traits
    THEN SourceAt(i).cognitive_traits[trait]
    ELSE Unit \div 2

\* C9: potential_conflicts holds analytical_intuitive_tension exactly when
\* some source's analytical_tendency and some (maybe other) source's
\* intuitive_tendency both exceed 0.8, a missing tendency counting as 0.5.
C9_AnalyticalIntuitiveTension ==
    HybridReturned =>
        (InList("analytical_intuitive_tension", ret.value.potential_conflicts)
            <=> /\ \E i \in 1..SourceCount : TendencyOf(i, "analytical_tendency") > (8 * Unit) \div 10
                /\ \E j \in 1..SourceCount : TendencyOf(j, "intuitive_tendency") > (8 * Unit) \div 10)

\* C9 witness: the tag is there although no single source exceeds 0.8 in both
\* tendencies, and one source holds no analytical_tendency.
C9_Witness ==
    /\ HybridReturned
    /\ InList("analytical_intuitive_tension", ret.value.potential_conflicts)
    /\ \A i \in 1..SourceCount :
          ~(/\ TendencyOf(i, "analytical_tendency") > (8 * Unit) \div 10
            /\ TendencyOf(i, "intuitive_tendency") > (8 * Unit) \div 10)
    /\ \E i \in 1..SourceCount : "analytical_tendency" \notin DOMAIN SourceAt(i).cognitive_traits

-----------------------------------------------------------------------------
(* Properties of generate_personality_profile.                             *)

\* A caller holds a personality profile: generate_personality_profile was
\* called with at least one response collected, so it did not return None.
PersonalityReturned ==
    /\ pc = "returned"
    /\ call.op = "generate_personality_profile"
    /\ all_analyses(personality_responses) # <<>>

\* One of the three means is strictly above both others.
SomeMeanStrictlyExceeds(p) ==
    LET a == p.analytical_tendency
        i == p.intuitive_tendency
        c == p.creative_tendency
    IN \/ (a > i /\ a > c)
       \/ (i > a /\ i > c)
       \/ (c > a /\ c > i)

\* C10: primary_thinking_style is 'balanced' exactly when none of the
\* analytical, intuitive and creative means strictly exceeds the others, as
\* when all three are equal.
C10_BalancedIffNoStrictMaximum ==
    PersonalityReturned =>
        (ret.value.primary_thinking_style = "balanced" <=> ~SomeMeanStrictlyExceeds(ret.value))

\* The first of analytical, intuitive, creative whose mean is the largest.
FirstAtMaximum(p) ==
    LET a == p.analytical_tendency
        i == p.intuitive_tendency
        c == p.creative_tendency
    IN IF a >= i /\ a >= c THEN "analytical"
       ELSE IF i >= c THEN "intuitive"
       ELSE "creative"

\* C11: when two or more of the analytical, intuitive and creative means tie
\* for the maximum, primary_thinking_style is the first tied category in the
\* order analytical, intuitive, creative.
C11_FirstTiedCategory ==
    (PersonalityReturned /\ ~SomeMeanStrictlyExceeds(ret.value)) =>
        ret.value.primary_thinking_style = FirstAtMaximum(ret.value)

\* C11 witness: intuitive and creative tie above analytical, and the style
\* is 'intuitive'.
C11_Witness ==
    /\ PersonalityReturned
    /\ ret.value.intuitive_tendency = ret.value.creative_tendency
    /\ ret.value.intuitive_tendency > ret.value.analytical_tendency
    /\ ret.value.primary_thinking_style = "intuitive"

\* C12: generate_personality_profile and generate_problem_solving_profile,
\* called when no response has been collected, each return None: they do not
\* raise and build no profile.
C12_NoProfileWithoutResponses ==
    /\ (/\ pc = "returned"
        /\ call.op = "generate_personality_profile"
        /\ personality_responses = EmptyDict)
          => ret = ReturnNone
    /\ (/\ pc = "returned"
        /\ call.op = "generate_problem_solving_profile"
        /\ problem_responses = EmptyDict)
          => ret = ReturnNone

\* C12 witness: generate_problem_solving_profile returned None on an
\* assessment that holds personality responses but no scenario response.
C12_Witness ==
    /\ pc = "returned"
    /\ call.op = "generate_problem_solving_profile"
    /\ problem_responses = EmptyDict
    /\ session = EmptyDict
    /\ profiles_dir = EmptyDict
    /\ personality_responses # EmptyDict
    /\ ret = ReturnNone

\* The analyses of the responses the user gave, of whatever stage.
CollectedAnalyses ==
    LET given == UserMessages(personality_chat_history)
    IN [i \in 1..Len(given) |-> given[i].analysis]

\* The indicator counts of a category summed over the responses, divided by
\* the number of responses.
PooledMean(indicator) ==
    (SumSeq([i \in 1..Len(CollectedAnalyses) |-> Get(CollectedAnalyses[i], indicator, 0)]) * Unit)
        \div Len(CollectedAnalyses)

\* C13: each *_tendency of the personality profile is the sum of the
\* category's indicator counts over all collected responses of all stages
\* pooled together, divided by the total number of responses.
C13_TendenciesPooledOverStages ==
    PersonalityReturned =>
        /\ ret.value.analytical_tendency = PooledMean("analytical_indicators")
        /\ ret.value.intuitive_tendency = PooledMean("intuitive_indicators")
        /\ ret.value.creative_tendency = PooledMean("creative_indicators")
        /\ ret.value.systematic_tendency = PooledMean("systematic_indicators")

\* C13 witness: responses of two stages, each with analytical count 3 and
\* intuitive and creative counts 0, give 'analytical' and the tendency 3.
C13_Witness ==
    /\ PersonalityReturned
    /\ Cardinality(DOMAIN personality_responses) = 2
    /\ \A i \in 1..Len(CollectedAnalyses) :
          /\ "analytical_indicators" \in DOMAIN CollectedAnalyses[i]
          /\ CollectedAnalyses[i].analytical_indicators = 3
          /\ CollectedAnalyses[i].intuitive_indicators = 0
          /\ CollectedAnalyses[i].creative_indicators = 0
    /\ ret.value.primary_thinking_style = "analytical"
    /\ ret.value.analytical_tendency = 3 * Unit

\* A caller holds what analyze_response returned.
AnalyzeReturned == pc = "returned" /\ call.op = "analyze_response"

\* The fields of a feature bag the claim names: the category-indicator
\* counts, certainty_level and the length statistics.
FeatureFields ==
    {"analytical_indicators", "intuitive_indicators", "creative_indicators",
     "systematic_indicators", "certainty_level", "length", "word_count"}

\* C14: when nlp is None, analyze_response gives an error outcome and no
\* feature bag: what it returns names the error and holds no category
\* indicator count, certainty_level or length statistic; when nlp is loaded
\* it returns the features and no error.
C14_NoAnalyzerNoFeatures ==
    AnalyzeReturned =>
        IF nlp
        THEN "error" \notin DOMAIN ret.value /\ FeatureFields \subseteq DOMAIN ret.value
        ELSE /\ ret.value.error = "NLP model not loaded"
             /\ FeatureFields \cap DOMAIN ret.value = {}

\* C14 witness: analyze_response was called without an analyzer on a text
\* that holds keywords, and returned the error alone.
C14_Witness ==
    /\ AnalyzeReturned
    /\ ~nlp
    /\ call.text = "Imagine a plan?"
    /\ DOMAIN ret.value = {"error"}

\* The messages of the chat whose response analyze_response was given again,
\* under the same context.
SameInputMessages ==
    {i \in 1..Len(personality_chat_history) :
        /\ personality_chat_history[i].role = "user"
        /\ personality_chat_history[i].content = call.text
        /\ personality_chat_history[i].trait_focus = call.context}

\* Two analyses agree on everything but the time they were made at.
SameButTimestamp(a, b) ==
    /\ DOMAIN a = DOMAIN b
    /\ \A k \in DOMAIN a \ {"timestamp"} : a[k] = b[k]

KeywordsPresent(text, patterns) ==
    LET text_lower == Lower(text)
    IN {i \in 1..Len(patterns) : Occurs(patterns[i], text_lower)}

\* C15 as stated: the analytical count is at most 22, the intuitive 17, the
\* creative 14 and the systematic 15.
C15_CountsWithinStatedSizes ==
    (AnalyzeReturned /\ nlp) =>
        /\ ret.value.analytical_indicators <= 22
        /\ ret.value.intuitive_indicators <= 17
        /\ ret.value.creative_indicators <= 14
        /\ ret.value.systematic_indicators <= 15

\* C15 amended: each category-indicator count of analyze_response is the
\* number of keywords of its list present in the text, however often they
\* repeat, and so at most the size of the list: analytical <= 23,
\* intuitive <= 17, creative <= 14, systematic <= 15.
C15_PresenceCounts ==
    (AnalyzeReturned /\ nlp) =>
        /\ ret.value.analytical_indicators =
              Cardinality(KeywordsPresent(call.text, analytical_patterns))
        /\ ret.value.intuitive_indicators =
              Cardinality(KeywordsPresent(call.text, intuitive_patterns))
        /\ ret.value.creative_indicators =
              Cardinality(KeywordsPresent(call.text, creative_patterns))
        /\ ret.value.systematic_indicators =
              Cardinality(KeywordsPresent(call.text, systematic_patterns))
        /\ ret.value.analytical_indicators <= 23
        /\ ret.value.intuitive_indicators <= 17
        /\ ret.value.creative_indicators <= 14
        /\ ret.value.systematic_indicators <= 15

\* C15 witness: a text that holds every analytical keyword, 'data' three
\* times, is counted 23.
C15_Witness ==
    /\ AnalyzeReturned
    /\ nlp
    /\ count_pattern_occurrences(call.text, <<"data">>) = 3
    /\ ret.value.analytical_indicators = 23

\* generate_comprehensive_profile returned to its caller.
ComprehensiveReturned == pc = "returned" /\ call.op = "generate_comprehensive_profile"

\* A profile came back from either operation of the generator.
ProfileReturned == ComprehensiveReturned \/ HybridReturned

\* The letter is the level of the tendency x: H above 0.7, M above 0.3, else L.
IsLevelOf(letter, x) ==
    /\ letter = "H" <=> x > Tenths(7)
    /\ letter = "M" <=> (x > Tenths(3) /\ x <= Tenths(7))
    /\ letter = "L" <=> x <= Tenths(3)

\* The two letters are the first two of the name, in upper case.
IsUpperPrefixOf(letters, name) ==
    /\ Len(letters) = 2
    /\ Lower(letters) = Lower(SubSeq(name, 1, 2))
    /\ \A i \in 1..2 : LowerChar(SubSeq(letters, i, i)) # SubSeq(letters, i, i)

\* C17: the cognitive_signature of a returned profile is nine characters
\* XX-AIC-YY: XX and YY the first two letters, uppercased, of the profile's
\* primary_thinking_style and problem_solving_approach ('balanced' when the
\* traits hold none), A, I and C the levels of its analytical, intuitive and
\* creative tendency; and the same assessment data synthesized in another
\* second gets the same signature.
C17_SignatureFormat ==
    ProfileReturned =>
        LET signature == ret.value.cognitive_signature
            traits == ret.value.cognitive_traits
        IN /\ Len(signature) = 9
           /\ IsUpperPrefixOf(SubSeq(signature, 1, 2),
                              Get(traits, "primary_thinking_style", "balanced"))
           /\ SubSeq(signature, 3, 3) = "-"
           /\ IsLevelOf(SubSeq(signature, 4, 4), Get(traits, "analytical_tendency", 0))
           /\ IsLevelOf(SubSeq(signature, 5, 5), Get(traits, "intuitive_tendency", 0))
           /\ IsLevelOf(SubSeq(signature, 6, 6), Get(traits, "creative_tendency", 0))
           /\ SubSeq(signature, 7, 7) = "-"
           /\ IsUpperPrefixOf(SubSeq(signature, 8, 9),
                              Get(traits, "problem_solving_approach", "balanced"))
           /\ (ComprehensiveReturned /\ call.assessment_data = analytical_data) =>
                 signature = LoadedProfiles[1].cognitive_signature

\* C17 witness: the analytical assessment, whose intuitive tendency is
\* exactly 0.3, got the signature AN-HLM-SY.
C17_Witness ==
    /\ ComprehensiveReturned
    /\ call.assessment_data = analytical_data
    /\ ret.value.cognitive_traits.intuitive_tendency = Tenths(3)
    /\ ret.value.cognitive_signature = "AN-HLM-SY"

\* The assessment data of the call holds no personality source, or no
\* problem-solving source, or an empty one.
SourceMissing ==
    \/ ~Truthy(Get(call.assessment_data, "personality", EmptyDict))
    \/ ~Truthy(Get(call.assessment_data, "problem_solving", EmptyDict))

\* C18: generate_comprehensive_profile called with an empty or absent
\* personality or problem-solving source returns None, the explicit 'no
\* profile' result: it does not raise, returns no profile and appends
\* nothing to profile_history.
C18_NoProfileForMissingSource ==
    (ComprehensiveReturned /\ SourceMissing) =>
        /\ ret.kind = "return"
        /\ ret.none
        /\ profile_history = call.history_before

\* The profiles issued before the call that has just returned: those the
\* caller holds that carry a creation time, and those the generator stored.
IssuedBefore ==
    {objects[i] : i \in {j \in 1..Len(objects) : "creation_timestamp" \in DOMAIN objects[j]}}
        \cup Elems(call.history_before)

\* C19: a profile_id issued by generate_comprehensive_profile or
\* create_hybrid_profile differs from the profile_id of every profile
\* issued in another second of the wall clock (two calls at least one
\* second apart read different seconds), whichever operation or generator
\* issued it.
C19_ProfileIdsDifferAcrossSeconds ==
    ProfileReturned =>
        \A q \in IssuedBefore :
            q.creation_timestamp # ret.value.creation_timestamp =>
                q.profile_id # ret.value.profile_id

\* C19 witness: a hybrid made in the first second of a minute got another
\* id than the profile generated one second earlier, in the minute before.
C19_Witness ==
    /\ HybridReturned
    /\ ret.value.profile_id = "PROFILE_20240101_000100"
    /\ \E q \in Elems(profile_history) : q.profile_id = "PROFILE_20240101_000059"

\* The profiles generate_comprehensive_profile returned to the caller, in the
\* order of the calls: those the caller keeps that are no hybrids, and the
\* one just returned.
ReturnedComprehensive ==
    SelectSeq(KeptResults, LAMBDA p : "profile_type" \notin DOMAIN p)
        \o (IF ComprehensiveReturned THEN <<ret.value>> ELSE <<>>)

\* C20: profile_history is exactly the sequence of the profiles that
\* generate_comprehensive_profile returned, in call order, so that earlier
\* entries are never removed, reordered or replaced; and a call of
\* create_hybrid_profile, successful or rejected, leaves it as it was.
C20_HistoryAppendOnly ==
    /\ profile_history = ReturnedComprehensive
    /\ HybridCalled => profile_history = call.history_before

\* C20 witness: two different profiles were generated, the second a second
\* after the first, and a hybrid was then made of two loaded profiles.
C20_Witness ==
    /\ HybridReturned
    /\ Len(KeptResults) = 2
    /\ profile_history = KeptResults
    /\ KeptResults[1].creation_timestamp < KeptResults[2].creation_timestamp
    /\ KeptResults[1].cognitive_traits # KeptResults[2].cognitive_traits

\* The traits of a profile that hold a category and no number: the seven
\* _extract_cognitive_traits writes as strings.
CategoricalTraitNames ==
    {"primary_thinking_style", "problem_solving_approach", "stakeholder_awareness",
     "risk_assessment_style", "collaboration_preference", "implementation_focus",
     "complexity_comfort"}

\* C24: every categorical trait the highest-weight source holds in its
\* cognitive_traits, collaboration_preference and implementation_focus
\* among them, is in the cognitive_traits of the hybrid with the same value.
C24_EntireCategoricalSubset ==
    HybridReturned =>
        \A trait \in CategoricalTraitNames \cap DOMAIN DominantSource.cognitive_traits :
            /\ trait \in DOMAIN ret.value.cognitive_traits
            /\ ret.value.cognitive_traits[trait] = DominantSource.cognitive_traits[trait]

\* The one profile the call was given is a profile generate_comprehensive_profile
\* made, and it has the whole weight.
BlendOfOneComprehensive ==
    /\ HybridReturned
    /\ SourceCount = 1
    /\ call.weights = <<Unit>>
    /\ "cognitive_signature" \in DOMAIN objects[call.refs[1]]
    /\ "profile_type" \notin DOMAIN objects[call.refs[1]]

\* C27: the hybrid of exactly one comprehensive profile with weights [1.0]
\* has the cognitive_signature of that profile, whether the profile was
\* generated with or without problem-solving data.
C27_SingleBlendKeepsSignature ==
    BlendOfOneComprehensive =>
        ret.value.cognitive_signature = objects[call.refs[1]].cognitive_signature

\* C28: in every profile generate_comprehensive_profile returns,
\* analysis_paralysis among the biases implies systematic_analysis among the
\* strengths, confirmation_bias implies pattern_recognition, the strengths
\* never hold both rapid_decision_making and thorough_consideration, and the
\* biases never hold both loss_aversion and overconfidence_bias.
C28_BiasAndStrengthTiers ==
    ComprehensiveReturned =>
        LET strengths == ret.value.strengths
            biases == ret.value.potential_biases
        IN /\ InList("analysis_paralysis", biases) => InList("systematic_analysis", strengths)
           /\ InList("confirmation_bias", biases) => InList("pattern_recognition", strengths)
           /\ ~(InList("rapid_decision_making", strengths)
                    /\ InList("thorough_consideration", strengths))
           /\ ~(InList("loss_aversion", biases) /\ InList("overconfidence_bias", biases))

\* C28 witness: an analytical tendency of 0.8, a strength and not yet a
\* bias, with an intuitive tendency of 0.9, a strength and a bias, a low
\* risk assessment and quick decisions.
C28_Witness ==
    /\ ComprehensiveReturned
    /\ ret.value.cognitive_traits.analytical_tendency = Tenths(8)
    /\ InList("systematic_analysis", ret.value.strengths)
    /\ ~InList("analysis_paralysis", ret.value.potential_biases)
    /\ InList("confirmation_bias", ret.value.potential_biases)
    /\ InList("pattern_recognition", ret.value.strengths)
    /\ InList("overconfidence_bias", ret.value.potential_biases)
    /\ InList("rapid_decision_making", ret.value.strengths)

\* The value source i holds for a numeric trait, 0.5 standing in for a
\* missing one.
SourceTrait(i, trait) ==
    IF "cognitive_traits" \in DOMAIN SourceAt(i) /\ trait \in DOMAIN SourceAt(i).cognitive_traits
    THEN SourceAt(i).cognitive_traits[trait]
    ELSE Unit \div 2

\* C29: for every accepted weight vector, each blended numeric trait lies
\* between the least and the greatest value of the trait over the source
\* profiles, up to the rounding of one product per source.
C29_BlendWithinSourceRange ==
    HybridReturned =>
        \A trait \in Elems(numerical_traits) :
            /\ \E i \in 1..SourceCount :
                  SourceTrait(i, trait) - SourceCount <= ret.value.cognitive_traits[trait]
            /\ \E i \in 1..SourceCount :
                  ret.value.cognitive_traits[trait] <= SourceTrait(i, trait) + SourceCount

\* The sections of a profile the blend reads.
BlendedSections ==
    {"cognitive_traits", "thinking_architecture", "communication_style",
     "decision_making_profile", "strengths"}

\* C30: after a successful create_hybrid_profile every profile the caller
\* holds has the fields it had, and each section the blend reads holds what
\* it held: nothing is added to, removed from or modified in a source.
C30_SourcesUnchanged ==
    HybridReturned =>
        \A ref \in 1..Len(LoadedProfiles) :
            /\ DOMAIN objects[ref] = DOMAIN LoadedProfiles[ref]
            /\ \A section \in BlendedSections \cap DOMAIN LoadedProfiles[ref] :
                  objects[ref][section] = LoadedProfiles[ref][section]

\* C30 witness: the hybrid's thinking_architecture and communication_style
\* carry the hybrid annotations, and those of the dominant source, from
\* which they were copied, carry none.
C30_Witness ==
    /\ HybridReturned
    /\ "hybrid_notes" \in DOMAIN ret.value.thinking_architecture
    /\ "hybrid_influence" \in DOMAIN ret.value.communication_style
    /\ "thinking_architecture" \in DOMAIN objects[call.refs[FirstHeaviest]]
    /\ "hybrid_notes" \notin DOMAIN objects[call.refs[FirstHeaviest]].thinking_architecture
    /\ "hybrid_influence" \notin DOMAIN objects[call.refs[FirstHeaviest]].communication_style

\* A response was stored without having been analysed: its analysis is the
\* error outcome of analyze_response.
UnanalysedResponses ==
    {i \in 1..Len(all_analyses(personality_responses)) :
        "error" \in DOMAIN all_analyses(personality_responses)[i]}

\* C23: with the analyzer unavailable, generate_personality_profile returns
\* no profile whose tendencies, certainty_level or primary_thinking_style
\* were computed from responses that were never analysed: when every
\* collected response is unanalysed, it returns None.
C23_NoProfileFromUnanalysedResponses ==
    (/\ pc = "returned"
     /\ call.op = "generate_personality_profile"
     /\ ~nlp
     /\ Len(all_analyses(personality_responses)) = Cardinality(UnanalysedResponses))
        => (ret.kind = "return" /\ ret.none)

\* A turn of the CLI's personality loop has been made.
LoopTurnMade == pc = "returned" /\ call.op = "run_personality_assessment"

\* C25: in the CLI's personality loop, with n answers given so far the
\* question asked is that of stage n \div 2, the main question when n is
\* even and the follow-up when n is odd, personality_chat_stage having
\* advanced after every second answer; and the loop is left with no
\* question only when the stage has reached len(chat_stages) = 5, after ten
\* answers.
C25_LoopAsksThenAdvances ==
    LoopTurnMade =>
        LET n == call.answers_before
        IN IF ret.none
           THEN personality_chat_stage = Len(chat_stages) /\ n = 2 * Len(chat_stages)
           ELSE /\ personality_chat_stage = n \div 2
                /\ ret.value = IF n % 2 = 0
                               THEN chat_stages[(n \div 2) + 1].question
                               ELSE chat_stages[(n \div 2) + 1].follow_ups[1]

\* The analyses stored under the trait_focus of a stage.
StageAnalyses(responses, stage) ==
    Get(responses, chat_stages[stage + 1].trait_focus, <<>>)

\* A run of the web personality chat in which the user submitted a response.
ResponseSubmitted ==
    Len(UserMessages(personality_chat_history')) = Len(UserMessages(personality_chat_history)) + 1

\* C26: in the web personality chat personality_chat_stage never decreases,
\* increases by one at a time and never exceeds 5; it advances from stage k
\* exactly when the second user response of stage k is submitted; and on
\* completion each of the five trait_focus keys of personality_responses
\* holds exactly two analyses.
C26_StageAdvancesOnSecondResponse ==
    /\ [][/\ personality_chat_stage' \in {personality_chat_stage, personality_chat_stage + 1}
          /\ personality_chat_stage' <= 5
          /\ (personality_chat_stage' = personality_chat_stage + 1) <=>
                (/\ ResponseSubmitted
                 /\ personality_chat_stage < Len(chat_stages)
                 /\ Len(StageAnalyses(personality_responses', personality_chat_stage)) = 2)]_vars
    /\ [](personality_chat_stage = Len(chat_stages) =>
            /\ DOMAIN personality_responses =
                  {chat_stages[i].trait_focus : i \in 1..Len(chat_stages)}
            /\ \A i \in 1..Len(chat_stages) :
                  Len(personality_responses[chat_stages[i].trait_focus]) = 2
            /\ Len(UserMessages(personality_chat_history)) = 10)

\* C26 witness: the chat is complete after ten responses, the last of them
\* the second response of the stage on neuroticism.
C26_Witness ==
    /\ pc = "returned"
    /\ call.op = "start_personality_chat"
    /\ call.user_response # ""
    /\ personality_chat_stage = 5
    /\ Len(UserMessages(personality_chat_history)) = 10
    /\ Len(personality_responses["neuroticism"]) = 2

-----------------------------------------------------------------------------
(* ProfileManager: the profile store.                                      *)

\* The subdirectories load_profile and delete_profile search, in order.
subdirs == <<"individual", "hybrid", "assessments">>

\* self.profiles_dir / subdir / f"{profile_id}.json"
file_path_of(subdir, profile_id) == subdir \o "/" \o profile_id \o ".json"

\* The directory without the file at path.
Unlink(dir, path) == [p \in (DOMAIN dir) \ {path} |-> dir[p]]

\* The first subdirectory of the search order that holds a file of the id,
\* or 0 when none does.
FoundIn(dir, profile_id) ==
    IF \E i \in 1..Len(subdirs) : file_path_of(subdirs[i], profile_id) \in DOMAIN dir
    THEN CHOOSE i \in 1..Len(subdirs) :
            /\ file_path_of(subdirs[i], profile_id) \in DOMAIN dir
            /\ \A j \in 1..(i - 1) : file_path_of(subdirs[j], profile_id) \notin DOMAIN dir
    ELSE 0

\* What load_profile(profile_id) returns on a directory: json.load of the
\* first file found. The dicts hold str keys, lists, strings, numbers and
\* booleans, which json.dump and json.load give back as they were.
load_profile_result(dir, profile_id) ==
    IF FoundIn(dir, profile_id) = 0 THEN ReturnNone
    ELSE Return(dir[file_path_of(subdirs[FoundIn(dir, profile_id)], profile_id)])

\* The subdirectory save_profile writes a profile to.
subdir_of(profile, profile_type) ==
    IF "profile_type" \in DOMAIN profile /\ profile.profile_type = "hybrid"
    THEN "hybrid"
    ELSE profile_type

\* save_profile(profile, profile_type) on the profile the caller holds at
\* ref: the dict is annotated in place and written over any file at its path.
save_profile(ref, profile_type) ==
    /\ LET profile == objects[ref]
       IN IF "profile_id" \notin DOMAIN profile
          THEN /\ ret' = Raise("Profile must have a profile_id")
               /\ call' = [op |-> "save_profile", ref |-> ref, profile_id |-> ""]
               /\ UNCHANGED <<objects, profiles_dir>>
          ELSE LET profile_id == profile.profile_id
                   file_path == file_path_of(subdir_of(profile, profile_type), profile_id)
                   saved == Put(Put(profile, "saved_timestamp", now), "file_path", file_path)
               IN /\ objects' = [objects EXCEPT ![ref] = saved]
                  /\ profiles_dir' = Put(profiles_dir, file_path, saved)
                  /\ ret' = Return(file_path)
                  /\ call' = [op |-> "save_profile", ref |-> ref, profile_id |-> profile_id]
    /\ pc' = "returned"
    /\ UNCHANGED <<profile_history, now, assessmentVars, session>>

load_profile(profile_id) ==
    /\ ret' = load_profile_result(profiles_dir, profile_id)
    /\ call' = [op |-> "load_profile", profile_id |-> profile_id]
    /\ pc' = "returned"
    /\ UNCHANGED <<profilerVars, assessmentVars, appVars>>

delete_profile(profile_id) ==
    /\ LET found == FoundIn(profiles_dir, profile_id)
       IN IF found = 0
          THEN /\ ret' = Return(FALSE)
               /\ UNCHANGED profiles_dir
          ELSE /\ profiles_dir' = Unlink(profiles_dir, file_path_of(subdirs[found], profile_id))
               /\ ret' = Return(TRUE)
    /\ call' = [op |-> "delete_profile", profile_id |-> profile_id]
    /\ pc' = "returned"
    /\ UNCHANGED <<profilerVars, assessmentVars, session>>

\* The seconds at which the demo creates its hybrid profile: the second of
\* its sample profiles, or the next.
HybridSeconds == {0, 1}

\* What the demo's main() holds when it saves: two sample profiles made in
\* one second, the leadership hybrid of them, and the assessment data of
\* the first, which has no profile_id.
DemoProfiles(t) ==
    LET analytical_profile == ComprehensiveProfile(analytical_data, 0)
        intuitive_profile == ComprehensiveProfile(intuitive_data, 0)
    IN <<analytical_profile, intuitive_profile,
         HybridProfile(<<analytical_profile, intuitive_profile>>,
                       <<Thousandths(600), Thousandths(400)>>, "leadership", t),
         analytical_data>>

\* The ids a caller looks up: those of the profiles held, and one of none.
LookupIds ==
    {objects[i].profile_id : i \in {j \in 1..Len(objects) : "profile_id" \in DOMAIN objects[j]}}
        \cup {"PROFILE_19700101_000000"}

InitStore ==
    /\ profile_history = <<>>
    /\ objects \in {DemoProfiles(t) : t \in HybridSeconds}
    /\ now = 1
    /\ pc = "idle"
    /\ call = NoCall
    /\ ret = NoReturn
    /\ nlp = TRUE
    /\ personality_chat_stage = 0
    /\ personality_chat_history = <<>>
    /\ personality_responses = EmptyDict
    /\ problem_chat_stage = 0
    /\ problem_chat_history = <<>>
    /\ problem_responses = EmptyDict
    /\ session = EmptyDict
    /\ profiles_dir = EmptyDict

NextStore ==
    \/ /\ pc = "idle"
       /\ \E ref \in 1..Len(objects), profile_type \in {"individual", "assessments"} :
             save_profile(ref, profile_type)
    \/ /\ pc = "idle"
       /\ \E profile_id \in LookupIds : load_profile(profile_id)
    \/ /\ pc = "idle"
       /\ \E profile_id \in LookupIds : delete_profile(profile_id)
    \/ caller_continues

SpecStore == InitStore /\ [][NextStore]_vars

\* save_profile returned the path of the file it wrote.
SaveSucceeded == pc = "returned" /\ call.op = "save_profile" /\ ret.kind = "return"

\* delete_profile returned True.
DeleteSucceeded ==
    pc = "returned" /\ call.op = "delete_profile" /\ ret.kind = "return" /\ ret.value = TRUE

\* Two profile dicts have the same profile_type, traits and signature.
SameContent(p, q) ==
    /\ Get(p, "profile_type", "individual") = Get(q, "profile_type", "individual")
    /\ p.cognitive_traits = q.cognitive_traits
    /\ p.cognitive_signature = q.cognitive_signature

\* C22: profile_id is the unique lookup key of the store: once
\* save_profile(p) has succeeded, load_profile(p['profile_id']) returns the
\* content of p, whatever was saved before; and once delete_profile(id) has
\* returned True, load_profile(id) returns None.
C22_ProfileIdIsLookupKey ==
    /\ SaveSucceeded =>
          LET loaded == load_profile_result(profiles_dir, call.profile_id)
          IN /\ ~loaded.none
             /\ SameContent(loaded.value, objects[call.ref])
    /\ DeleteSucceeded => load_profile_result(profiles_dir, call.profile_id).none

-----------------------------------------------------------------------------
(* The web app: st.session_state over the runs of main().                  *)

\* A session value that is Python's None, and one that is an object.
Absent == [none |-> TRUE]

Present(value) == [none |-> FALSE, value |-> value]

\* default_values of initialize_session_state.
default_values ==
    [stage |-> "welcome", assessment |-> Absent, profiler |-> Absent, profile |-> Absent,
     clone |-> Absent, assessment_complete |-> FALSE, profile_complete |-> FALSE,
     clone_complete |-> FALSE]

\* Each default is stored under its key unless the key is in the session.
initialize_session_state(s) ==
    [k \in (DOMAIN s) \cup (DOMAIN default_values) |->
        IF k \in DOMAIN s THEN s[k] ELSE default_values[k]]

\* Every key but 'stage' is deleted and the stage set to 'welcome'.
reset_session(s) == [k \in {"stage"} |-> "welcome"]

\* hasattr(st.session_state, key)
hasattr(s, key) == key \in DOMAIN s

stage_keys == <<"welcome", "assessment", "profile", "clone", "hybrid">>

\* The methods of the ChatBasedAssessment class the app imports
\* (cognitive_assessment.chat_assessment) that the pages could call.
assessment_methods ==
    {"get_next_personality_question", "submit_personality_response",
     "get_next_problem_scenario", "submit_problem_solving_response", "analyze_response",
     "generate_personality_profile", "generate_problem_solving_profile",
     "run_personality_assessment", "run_problem_solving_assessment"}

\* What the user did on the page shown by the last run: nothing, a choice
\* of the sidebar's radio, or a click on a button.
NoInput == [widget |-> "none", value |-> ""]

Chosen(stage) == [widget |-> "radio", value |-> stage]

Clicked(label) == [widget |-> "button", value |-> label]

\* What a part of the script gives: the session, the buttons it showed,
\* whether st.rerun() was called, whether an exception ended the run, and
\* whether generate_complete_profile() was called, which is the last thing
\* its run does to the session.
Shown(s, buttons) ==
    [session |-> s, buttons |-> buttons, rerun |-> FALSE, error |-> FALSE, generate |-> FALSE]

Rerun(s) == [session |-> s, buttons |-> {}, rerun |-> TRUE, error |-> FALSE, generate |-> FALSE]

Failed(s) == [session |-> s, buttons |-> {}, rerun |-> FALSE, error |-> TRUE, generate |-> FALSE]

render_sidebar(s, input) ==
    LET selected_stage == IF input.widget = "radio" THEN input.value ELSE s.stage
        s1 == [s EXCEPT !.stage = selected_stage]
    IN IF input = Clicked("Reset Session") THEN Rerun(reset_session(s1))
       ELSE Shown(s1, {"Reset Session"} \cup
                      (IF s1.profile.none THEN {} ELSE {"Export Profile"}))

show_welcome_page(s, input) ==
    IF input = Clicked("Start Cognitive Assessment")
    THEN Rerun([s EXCEPT !.stage = "assessment"])
    ELSE Shown(s, {"Start Cognitive Assessment"})

\* st.session_state.assessment.start_personality_chat(): the attribute
\* lookup raises AttributeError, since the class has no such method.
show_personality_assessment(s) ==
    IF "start_personality_chat" \notin assessment_methods THEN Failed(s)
    ELSE Shown(s, {})

show_problem_solving_assessment(s, input) ==
    IF ~hasattr(s, "personality_profile") THEN Shown(s, {"Go to Personality Discovery"})
    ELSE IF "start_problem_solving_chat" \notin assessment_methods THEN Failed(s)
    ELSE Shown(s, {})

\* generate_complete_profile() at time t: the session after it, and the
\* profile the profiler made.
generate_complete_profile(s, t) ==
    LET assessment_data ==
            [personality |-> s.personality_profile,
             problem_solving |-> s.problem_solving_profile,
             conversation_history |->
                Get(s, "personality_chat_history", <<>>) \o Get(s, "problem_chat_history", <<>>)]
        profile == ComprehensiveProfile(assessment_data, t)
        s1 == IF s.profiler.none
              THEN [s EXCEPT !.profiler = Present("CognitiveProfileGenerator")]
              ELSE s
    IN [session |-> [s1 EXCEPT !.profile = Present(profile), !.assessment_complete = TRUE,
                               !.profile_complete = TRUE],
        profile |-> profile]

show_profile_generation(s, input) ==
    LET personality_done == hasattr(s, "personality_profile")
        problem_solving_done == hasattr(s, "problem_solving_profile")
    IN IF ~personality_done \/ ~problem_solving_done THEN Shown(s, {})
       ELSE IF ~hasattr(s, "profile")
       THEN [Shown(s, {"Generate My Complete Cognitive Profile"})
             EXCEPT !.generate = (input = Clicked("Generate My Complete Cognitive Profile"))]
       ELSE IF s.profile.none THEN Failed(s)
       ELSE IF input = Clicked("Review Full Profile & Create Clone")
       THEN Rerun([s EXCEPT !.stage = "profile"])
       ELSE Shown(s, {"Review Full Profile & Create Clone"})

\* The three tabs are run one after the other; an exception ends the run.
show_assessment_page(s, input) ==
    LET s1 == IF s.assessment.none
              THEN [s EXCEPT !.assessment = Present("ChatBasedAssessment")]
              ELSE s
        tab1 == show_personality_assessment(s1)
        tab2 == show_problem_solving_assessment(tab1.session, input)
        tab3 == show_profile_generation(tab2.session, input)
    IN IF tab1.error THEN tab1
       ELSE IF tab2.error THEN [tab2 EXCEPT !.buttons = tab1.buttons]
       ELSE [tab3 EXCEPT !.buttons = IF tab3.rerun \/ tab3.error THEN {}
                                     ELSE tab1.buttons \cup tab2.buttons \cup tab3.buttons]

show_profile_page(s, input) ==
    IF s.profile.none
    THEN IF input = Clicked("Back to Assessment")
         THEN Rerun([s EXCEPT !.stage = "assessment"])
         ELSE Shown(s, {"Back to Assessment"})
    ELSE IF ~s.clone_complete
    THEN IF input = Clicked("Create My Cognitive Clone")
         THEN Shown([s EXCEPT !.clone = Present("ReasoningEngine"), !.clone_complete = TRUE],
                    {"Create My Cognitive Clone"})
         ELSE Shown(s, {"Create My Cognitive Clone"})
    ELSE IF input = Clicked("Start Chatting with Your Clone")
    THEN Rerun([s EXCEPT !.stage = "clone"])
    ELSE Shown(s, {"Start Chatting with Your Clone"})

show_clone_interface(s, input) ==
    IF s.clone.none
    THEN IF input = Clicked("Back to Clone Creation")
         THEN Rerun([s EXCEPT !.stage = "profile"])
         ELSE Shown(s, {"Back to Clone Creation"})
    ELSE Shown(s, {})

\* One pass of main() over the session: the defaults, the sidebar, and the
\* page of the stage.
script(s, input) ==
    LET sidebar == render_sidebar(initialize_session_state(s), input)
        stage == sidebar.session.stage
        page == IF stage = "welcome" THEN show_welcome_page(sidebar.session, input)
                ELSE IF stage = "assessment" THEN show_assessment_page(sidebar.session, input)
                ELSE IF stage = "profile" THEN show_profile_page(sidebar.session, input)
                ELSE IF stage = "clone" THEN show_clone_interface(sidebar.session, input)
                ELSE Shown(sidebar.session, {})
    IN IF sidebar.rerun THEN sidebar
       ELSE IF page.rerun THEN page
       ELSE [page EXCEPT !.buttons = sidebar.buttons \cup page.buttons]

\* A run of the app: main(), and main() once more after st.rerun().
run(s, input) ==
    LET first == script(s, input)
    IN IF first.rerun THEN script(first.session, NoInput) ELSE first

\* The buttons on the page the last run left on the screen.
Offered(s) == IF s = EmptyDict THEN {} ELSE run(s, NoInput).buttons

ButtonLabels ==
    {"Reset Session", "Export Profile", "Start Cognitive Assessment",
     "Go to Personality Discovery", "Generate My Complete Cognitive Profile",
     "Review Full Profile & Create Clone", "Back to Assessment",
     "Create My Cognitive Clone", "Start Chatting with Your Clone", "Back to Clone Creation"}

UserInputs ==
    {NoInput} \cup {Chosen(stage_keys[i]) : i \in 1..Len(stage_keys)}
              \cup {Clicked(label) : label \in ButtonLabels}

RaiseAttributeError ==
    [kind |-> "raise", error |-> "AttributeError",
     message |-> "'ChatBasedAssessment' object has no attribute"]

\* The browser sends what the user did and main() runs. A radio or a button
\* is on the screen only after a first run, a button only when that run
\* showed it.
main(input) ==
    /\ input.widget = "radio" => session # EmptyDict
    /\ input.widget = "button" => input.value \in Offered(session)
    /\ LET result == run(session, input)
       IN /\ IF result.generate
             THEN LET made == generate_complete_profile(result.session, now)
                  IN /\ session' = made.session
                     /\ profile_history' = Append(profile_history, made.profile)
             ELSE /\ session' = result.session
                  /\ UNCHANGED profile_history
          /\ ret' = IF result.error THEN RaiseAttributeError ELSE Return(result.buttons)
    /\ call' = [op |-> "main", input |-> input, session_before |-> session]
    /\ pc' = "returned"
    /\ UNCHANGED <<objects, now, assessmentVars, profiles_dir>>

NextSession ==
    \/ /\ pc = "idle"
       /\ \E input \in UserInputs : main(input)
    \/ caller_continues

SpecSession == InitAssess /\ [][NextSession]_vars

\* The user goes on using the app, opens the assessment again and again,
\* and sooner or later clicks the Generate button if it is offered again
\* and again.
SpecSessionFair ==
    /\ SpecSession
    /\ WF_vars(NextSession)
    /\ SF_vars(pc = "idle" /\ main(Chosen("assessment")))
    /\ SF_vars(pc = "idle" /\ main(Clicked("Generate My Complete Cognitive Profile")))

\* Both assessment profiles are in the session.
BothProfilesPresent ==
    hasattr(session, "personality_profile") /\ hasattr(session, "problem_solving_profile")

\* The session holds a generated profile and both completion flags.
ProfileGenerated ==
    /\ hasattr(session, "profile")
    /\ ~session.profile.none
    /\ session.assessment_complete
    /\ session.profile_complete

\* C21: in the web flow, whenever both the personality profile and the
\* problem-solving profile are in the session and no comprehensive profile
\* has been generated, the button 'Generate My Complete Cognitive Profile'
\* is offered; and from the initial session a generated profile (session
\* 'profile' set, assessment_complete and profile_complete True) is reached
\* by a user who keeps doing what the pages offer.
C21_GeneratedProfileReached ==
    /\ [](BothProfilesPresent /\ ~ProfileGenerated =>
            "Generate My Complete Cognitive Profile" \in Offered(session))
    /\ <>ProfileGenerated

=============================================================================
